---- MODULE Spec2Model ----
(***************************************************************************)
(* apple-music-tui: the daemon's queue operations against the remote       *)
(* player (daemon package), the navigation state machine of the terminal   *)
(* UI (tui package, Model.Update) and the queue-snapshot decoder           *)
(* (parse_queue_output).                                                   *)
(***************************************************************************)
EXTENDS Integers, Sequences, FiniteSets, TLC

\* ------------------------------------------------------------------ bounds
\* Largest number of tracks of the source playlist.
MaxTracks == 3
\* Largest number of tracks of the playlist a queue snapshot is taken of.
MaxSnapTracks == 2
\* Number of tracks of the longest library playlist and of a search result.
MaxSongs == 2
\* Number of tracks of the queue the inspector shows.
MaxQueueTracks == 2
\* Largest length of the search text that is typed.
MaxSearchText == 1
\* Largest number of unanswered commands of one kind.
MaxInflight == 1
\* Number of playlists of the long library.
MaxPlaylists == 7
\* Number of tracks of the long playlist.
MaxLongSongs == 8
MaxPolls == 2

\* ------------------------------------------------------------------ state
VARIABLES
    \* --- the remote player (Music), as the scripts of the daemon see it
    musicRunning,     \* "it is running"
    srcLen,           \* track count of the source playlist; its tracks are 1..srcLen
    srcBad,           \* position of a track whose record GetPlaylist cannot decode, 0 if none
    queueExists,      \* user playlist "amtui Queue" exists
    queue,            \* tracks of playlist "amtui Queue", in order
    shuffleEnabled,   \* "shuffle enabled" of the player
    playerState,      \* "playing", "paused" or "stopped"
    currentPlaylist,  \* name of the current playlist ("none" when there is none)
    currentTrack,     \* the current track, 0 when there is none
    \* --- one call of the daemon
    pc,               \* where the call stands
    argPos,           \* PlaySongAtPosition: position
    playlistLen,      \* PlaySongAtPosition: len(playlist.Tracks) of the decoded playlist
    currentShuffle,   \* CreateOrUpdateQueueWithSelectedFirst: currentShuffle
    output,           \* CleanupQueue: how the script's answer begins ("" before it)
    result,           \* "none" while running, then "ok" (nil) or "err"
    \* --- GetQueueInfo: the current playlist the script reports on, and the decode
    snapName,         \* name of the current playlist (text)
    snapTracks,       \* its tracks: records of name, artist, album (texts)
    snapCurrent,      \* position of the current track in it, 0 when nothing plays
    payload,          \* the text the script returned
    queueInfo,        \* what GetQueueInfo returned, "none" before the call
    \* --- the terminal UI (tui package)
    model,            \* the Model value the event loop holds (leaf models included)
    inflight,         \* commands started and not yet answered, per kind of answer
    quit,             \* Update returned tea.Quit
    \* --- one application of a function of the daemon or of the tui to an input
    fn,               \* the function that was applied, "none" before
    fnArg,            \* its input
    fnRet,            \* what it returned, <<>> before
    \* --- the daemon calls the keys started with "go func()"
    goroutines        \* the keys in their order, the calls not on the processor, the results

remoteVars == <<musicRunning, srcLen, srcBad, queueExists, queue, shuffleEnabled, playerState,
                currentPlaylist, currentTrack>>
callVars == <<pc, argPos, playlistLen, currentShuffle, output, result>>
daemonVars == <<remoteVars, callVars>>

codecVars == <<snapName, snapTracks, snapCurrent, payload, queueInfo>>

tuiVars == <<model, inflight, quit>>

applyVars == <<fn, fnArg, fnRet, goroutines>>

vars == <<daemonVars, codecVars, tuiVars, applyVars>>

\* No key has started a goroutine.
NoGoroutines == [keys |-> <<>>, running |-> "none", parked |-> <<>>, results |-> <<>>]

\* No function is applied and no goroutine is started: the specifications of the
\* player, of the decoder and of the terminal UI hold these still.
ApplyIdle == fn = "none" /\ fnArg = <<>> /\ fnRet = <<>> /\ goroutines = NoGoroutines

\* ------------------------------------------------------------------ the terminal UI: data
\* focusArea
focusSearch == "focusSearch"
focusPlaylists == "focusPlaylists"
focusMain == "focusMain"

\* contextMenuOption
contextPlay == 0
contextAddToQueue == 1

\* searchHelpModel.Update: the character limit of the search text.
SearchTextLimit == 156
\* Model.Update, queue overlay: "visibleTracks := 15".
QueueVisibleTracks == 15

\* The user playlists of the library, as fetchPlaylists lists them, and the
\* number of tracks fetchAllPlaylists finds in each.
LibraryNames == <<"P1", "P2">>
SongsIn(name) ==
    IF name = "P1" THEN MaxSongs ELSE IF name = "L" THEN MaxLongSongs ELSE 0

\* A library with more playlists than the playlists panel has rows; its first
\* playlist "L" has more tracks than the main panel has rows.
LongLibraryNames ==
    SubSeq(<<"L", "P1", "P2", "P3", "P4", "P5", "P6", "P7", "P8", "P9">>, 1, MaxPlaylists)

\* No goroutine was started.
NoCall == [op |-> "none", playlist |-> "", arg |-> 0]

\* NewModel: the leaf models are fields of the record; a track list is kept
\* by its length, searchQuery by its kind ("", "query" or "Error"), queueInfo
\* is <<>> (nil) or <<info>>.
NewModel ==
    [ currentFocus |-> focusPlaylists,
      selectedPlaylistItem |-> 0,
      ctrlWPressed |-> FALSE,
      selectedPlaylist |-> "",
      playlistCache |-> {},
      playlistsLoading |-> TRUE,
      lastHeight |-> 0,
      queueVisible |-> FALSE,
      contextVisible |-> FALSE,
      searchHelp |-> [searchText |-> <<>>, cursorPos |-> 0, searching |-> FALSE],
      playlists |-> [height |-> 12, selectedItem |-> 0, activeItem |-> -1, scrollOffset |-> 0,
                     playlistItems |-> <<>>, lastError |-> FALSE],
      main |-> [height |-> 24, currentPlaylist |-> "", selectedSong |-> 0, scrollOffset |-> 0,
                searchResults |-> 0, searchQuery |-> "", isSearchMode |-> FALSE],
      playback |-> [hasStatus |-> FALSE],
      queueOverlay |-> [visible |-> FALSE, loading |-> FALSE, queueInfo |-> <<>>,
                        lastError |-> FALSE, selectedItem |-> 0, scrollOffset |-> 0],
      contextMenu |-> [visible |-> FALSE, selectedOption |-> 0, targetPlaylist |-> "",
                       targetSongIndex |-> 0] ]

\* Model.Init: the playlist names, the playlist data and the playback status
\* are being fetched (the size check runs for the whole session).
TuiIdle ==
    /\ model = NewModel
    /\ inflight = [playlists |-> TRUE, allPlaylists |-> TRUE, queueInfo |-> 0, search |-> 0,
                   status |-> 1, statusTick |-> 0]
    /\ quit = FALSE

QueueName == "amtui Queue"
SourceName == "src"

\* The tracks of the source playlist: track i of the playlist is i.
SourceTracks == [i \in 1..srcLen |-> i]

\* The tracks of a playlist of the remote, by name.
TracksOf(name) ==
    IF name = QueueName THEN queue
    ELSE IF name = SourceName THEN SourceTracks
    ELSE <<>>

\* ------------------------------------------------- texts
\* A text is a sequence of characters, each a string of length 1.
Digits == <<"0", "1", "2", "3", "4", "5", "6", "7", "8", "9">>

IsDigit(c) == \E d \in 1..10 : Digits[d] = c

DigitValue(c) == (CHOOSE d \in 1..10 : Digits[d] = c) - 1

\* strings.Split(s, sep) for a separator of one character.
RECURSIVE Split(_, _)
Split(s, sep) ==
    IF \A k \in 1..Len(s) : s[k] # sep THEN <<s>>
    ELSE LET k == CHOOSE i \in 1..Len(s) :
                     s[i] = sep /\ \A j \in 1..(i - 1) : s[j] # sep
         IN  <<SubSeq(s, 1, k - 1)>> \o Split(SubSeq(s, k + 1, Len(s)), sep)

\* The value of a run of digits.
RECURSIVE DigitsValue(_)
DigitsValue(s) ==
    IF s = <<>> THEN 0
    ELSE 10 * DigitsValue(SubSeq(s, 1, Len(s) - 1)) + DigitValue(s[Len(s)])

\* strconv.Atoi: an optional sign, then one digit or more.
Atoi(s) ==
    LET signed == Len(s) > 0 /\ (s[1] = "-" \/ s[1] = "+")
        body == IF signed THEN SubSeq(s, 2, Len(s)) ELSE s
    IN  IF body = <<>> \/ \E k \in 1..Len(body) : ~IsDigit(body[k])
        THEN [ok |-> FALSE, val |-> 0]
        ELSE [ok |-> TRUE,
              val |-> IF signed /\ s[1] = "-" THEN 0 - DigitsValue(body)
                      ELSE DigitsValue(body)]

\* A number as the script writes it into its answer.
RECURSIVE NumberText(_)
NumberText(n) ==
    IF n < 10 THEN <<Digits[n + 1]>>
    ELSE NumberText(n \div 10) \o <<Digits[(n % 10) + 1]>>

\* ------------------------------------------------- GetQueueInfo
\* Texts of the library a snapshot can be taken of: playlist names and tracks,
\* among them an empty album, an empty name and names holding a delimiter.
SnapNames == { <<"Q">>, <<"Q", "|", "1", "|", "5">> }

SnapTrackSet ==
    { [name |-> <<"a">>,           artist |-> <<"b">>, album |-> <<"c">>],
      [name |-> <<"a">>,           artist |-> <<"b">>, album |-> <<>>],
      [name |-> <<>>,              artist |-> <<"b">>, album |-> <<"c">>],
      [name |-> <<"a", "~", "a">>, artist |-> <<"b">>, album |-> <<"c">>],
      [name |-> <<"a", "|", "a">>, artist |-> <<"b">>, album |-> <<"c">>] }

\* "duration of queueTrack" as the script writes it.
DurationText == <<"7">>

\* The record the script writes for track i of the current playlist.
TrackRecord(t, i) ==
    t.name \o <<"~">> \o t.artist \o <<"~">> \o t.album \o <<"~">> \o DurationText
        \o <<"~">> \o NumberText(i)

RECURSIVE TrackRecords(_, _)
TrackRecords(tracks, i) ==
    IF i > Len(tracks) THEN <<>>
    ELSE TrackRecord(tracks[i], i)
            \o (IF i < Len(tracks) THEN <<"|", "|">> ELSE <<>>)
            \o TrackRecords(tracks, i + 1)

\* The answer of the GetQueueInfo script for a current playlist, as osascript
\* prints it (with the line end).
QueueScriptOutput(name, tracks, current) ==
    LET cur == IF current = 0
               THEN [name |-> <<>>, artist |-> <<>>, album |-> <<>>, dur |-> <<"0">>]
               ELSE [name |-> tracks[current].name, artist |-> tracks[current].artist,
                     album |-> tracks[current].album, dur |-> DurationText]
    IN  name \o <<"|">> \o NumberText(Len(tracks)) \o <<"|">> \o NumberText(current)
             \o <<"|">> \o cur.name \o <<"|">> \o cur.artist \o <<"|">> \o cur.album
             \o <<"|">> \o cur.dur \o <<"|">>
             \o TrackRecords(tracks, 1) \o <<"\n">>

\* The answer of the script's "on error" branch.
QueueScriptError == <<"E", "r", "r", "o", "r", ":", " ", "x", "\n">>

HasPrefix(s, prefix) == Len(s) >= Len(prefix) /\ SubSeq(s, 1, Len(prefix)) = prefix

NoQueueInfo ==
    [state |-> "none", QueueName |-> <<>>, Tracks |-> <<>>, CurrentTrack |-> <<>>,
     CurrentPosition |-> 0, TotalTracks |-> 0]

ErrQueueInfo == [NoQueueInfo EXCEPT !.state = "err"]

\* Mutant: a track record is kept only when none of its 5 fields is empty.
KeepsTrackRecordNonEmpty(trackParts) ==
    Len(trackParts) = 5 /\ \A k \in 1..5 : trackParts[k] # <<>>

\* parse_queue_output: "if len(trackParts) != 5 { continue }".
KeepsTrackRecord(trackParts) == ~(Len(trackParts) # 5)

\* parse_queue_output: the loop over parts[7], parts[9], ... (0-based).
RECURSIVE ParseTracks(_, _)
ParseTracks(parts, i) ==
    IF ~(i < Len(parts)) THEN <<>>
    ELSE LET part == parts[i + 1]
             trackParts == Split(part, "~")
         IN  (IF part = <<>> THEN <<>>
              ELSE IF ~KeepsTrackRecord(trackParts) THEN <<>>
              ELSE << [Name |-> trackParts[1], Artist |-> trackParts[2],
                       Album |-> trackParts[3], Duration |-> trackParts[4]] >>)
             \o ParseTracks(parts, i + 2)

parse_queue_output(out) ==
    LET parts == Split(out, "|")
    IN  IF Len(parts) < 7 THEN ErrQueueInfo
        ELSE LET totalTracks == Atoi(parts[2])
                 currentPosition == Atoi(parts[3])
             IN  IF ~totalTracks.ok THEN ErrQueueInfo
                 ELSE IF ~currentPosition.ok THEN ErrQueueInfo
                 ELSE [state |-> "ok",
                       QueueName |-> parts[1],
                       Tracks |-> IF Len(parts) > 7 THEN ParseTracks(parts, 7) ELSE <<>>,
                       CurrentTrack |->
                           IF parts[4] # <<>>
                           THEN << [Name |-> parts[4], Artist |-> parts[5],
                                    Album |-> parts[6], Duration |-> parts[7]] >>
                           ELSE <<>>,
                       CurrentPosition |-> currentPosition.val,
                       TotalTracks |-> totalTracks.val]

\* GetQueueInfo: the script's answer is checked for the error texts, then decoded.
GetQueueInfo ==
    /\ queueInfo.state = "none"
    /\ queueInfo' =
          IF HasPrefix(payload, <<"E", "r", "r", "o", "r", ":">>) THEN ErrQueueInfo
          ELSE parse_queue_output(payload)
    /\ UNCHANGED <<snapName, snapTracks, snapCurrent, payload, daemonVars, tuiVars, applyVars>>

\* The snapshot is dropped; the next one is taken of another state of the player.
NextSnapshot ==
    /\ queueInfo.state # "none"
    /\ queueInfo' = NoQueueInfo
    /\ snapName' \in SnapNames
    /\ \E n \in 0..MaxSnapTracks : snapTracks' \in [1..n -> SnapTrackSet]
    /\ snapCurrent' \in 0..Len(snapTracks')
    /\ payload' \in {QueueScriptOutput(snapName', snapTracks', snapCurrent'), QueueScriptError}
    /\ UNCHANGED <<daemonVars, tuiVars, applyVars>>

CodecIdle ==
    /\ snapName = <<"Q">> /\ snapTracks = <<>> /\ snapCurrent = 0
    /\ payload = QueueScriptOutput(<<"Q">>, <<>>, 0)
    /\ queueInfo = NoQueueInfo

\* ------------------------------------------------- daemon: helper operators
\* GetPlaylist: the decoder keeps the records that split into 4 fields.
DecodedLen == IF srcBad = 0 THEN srcLen ELSE srcLen - 1

\* GetPlaylist: the tracks of the decoded playlist, the rows of the main
\* panel: the tracks of the source without the one whose record was skipped.
DecodedTracks ==
    [k \in 1..DecodedLen |-> IF srcBad = 0 \/ k < srcBad THEN SourceTracks[k]
                             ELSE SourceTracks[k + 1]]

\* Mutant: the check forgets the lower bound.
ValidPositionNoLowerBound(position, len) == ~(position > len)

\* PlaySongAtPosition: the position check on the decoded playlist.
ValidPosition(position, len) == ~(position < 1 \/ position > len)

\* The script's own check of the position against the remote track count.
ScriptValidPosition(position) == ~(position < 1 \/ position > srcLen)

\* Mutant: only the indices after pos are kept, as in the ordered branch.
RemainingIndicesAfterOnly(pos) == [k \in 1..(srcLen - pos) |-> pos + k]

\* "repeat with i from 1 to trackCount / if i is not pos": the other indices.
RemainingIndices(pos) ==
    LET F[i \in 0..srcLen] ==
            IF i = 0 THEN <<>>
            ELSE IF i # pos THEN Append(F[i - 1], i) ELSE F[i - 1]
    IN  F[srcLen]

\* Mutant: item i is written without "temp", item j gets the new item i.
SwapWithoutTemp(s, i, j) == [s EXCEPT ![i] = s[j], ![j] = s[j]]

\* "set temp to item i / set item i to item j / set item j to temp".
Swap(s, i, j) == [s EXCEPT ![i] = s[j], ![j] = s[i]]

\* "repeat with i from remainingCount to 2 by -1 / set j to (random number
\* from 1 to i) / swap items i and j": every list the loop can end with.
RECURSIVE FisherYates(_, _)
FisherYates(s, i) ==
    IF i < 2 THEN {s}
    ELSE UNION { FisherYates(Swap(s, i, j), i - 1) : j \in 1..i }

\* Mutant: the loop starts at pos, adding the selected track twice.
OrderedRemainderFromPos(pos) == [k \in 1..(srcLen - pos + 1) |-> SourceTracks[pos + k - 1]]

\* "repeat with i from (pos + 1) to trackCount": the tracks after pos, in order.
OrderedRemainder(pos) == [k \in 1..(srcLen - pos) |-> SourceTracks[pos + k]]

\* The queues the build script can leave when it runs to its end.
BuiltQueues(pos, isShuffled) ==
    IF isShuffled
    THEN LET rem == RemainingIndices(pos)
         IN  { <<SourceTracks[pos]>> \o [k \in 1..Len(r) |-> SourceTracks[r[k]]] :
                 r \in FisherYates(rem, Len(rem)) }
    ELSE { <<SourceTracks[pos]>> \o OrderedRemainder(pos) }

\* "set shuffle enabled to false" at the end of the build script.
ShuffleAfterBuild(old) == FALSE

\* Mutant: the play script leaves the shuffle setting alone.
ShuffleAfterPlayKept(old) == old

\* "set shuffle enabled to false" of the play script.
ShuffleAfterPlay(old) == FALSE

Prefixes(s) == { SubSeq(s, 1, k) : k \in 0..Len(s) }

\* CleanupQueue: position of the first queue track with the name and artist
\* of the current track, 0 when there is none.
CurrentTrackPosition ==
    IF \E i \in 1..Len(queue) : queue[i] = currentTrack
    THEN CHOOSE i \in 1..Len(queue) :
            /\ queue[i] = currentTrack
            /\ \A j \in 1..(i - 1) : queue[j] # currentTrack
    ELSE 0

\* Mutant: one deletion too many, the playing track is removed too.
TrimFrontOneMore(q, tracksToRemove) == SubSeq(q, tracksToRemove + 2, Len(q))

\* CleanupQueue: "delete track 1 of queuePlaylist", tracksToRemove times.
TrimFront(q, tracksToRemove) == SubSeq(q, tracksToRemove + 1, Len(q))

\* Mutant: only "SUCCESS:" is returned as nil.
CleanupResultInfoIsError(out) == IF out = "SUCCESS:" THEN "ok" ELSE "err"

\* CleanupQueue: "ERROR:" is an error, "INFO:" and "SUCCESS:" are returned as nil.
CleanupResult(out) ==
    IF out = "ERROR:" THEN "err"
    ELSE IF out = "INFO:" \/ out = "SUCCESS:" THEN "ok"
    ELSE "err"

\* CleanupQueue: how the script answers in the state of the player.
CleanupOutput ==
    IF ~musicRunning THEN "ERROR:"
    ELSE IF currentPlaylist # QueueName THEN "INFO:"
    ELSE IF Len(queue) = 0 THEN "INFO:"
    ELSE IF currentTrack = 0 THEN "INFO:"
    ELSE IF CurrentTrackPosition > 1 THEN "SUCCESS:"
    ELSE "INFO:"

Finish(r) == pc' = "done" /\ result' = r

\* ------------------------------------------------- daemon: PlaySongAtPosition
\* Entry: GetPlaylist, then the position check.
PlaySongAtPosition(position) ==
    /\ UNCHANGED <<codecVars, tuiVars, applyVars>>
    /\ pc = "idle"
    /\ argPos' = position
    /\ UNCHANGED <<remoteVars, currentShuffle, output>>
    /\ IF ~musicRunning
          THEN playlistLen' = 0 /\ Finish("err")
          ELSE /\ playlistLen' = DecodedLen
               /\ IF ValidPosition(position, DecodedLen)
                  THEN pc' = "getShuffle" /\ result' = "none"
                  ELSE Finish("err")

\* CreateOrUpdateQueueWithSelectedFirst: d.GetShuffle().
GetShuffle ==
    /\ UNCHANGED <<codecVars, tuiVars, applyVars>>
    /\ pc = "getShuffle"
    /\ UNCHANGED <<remoteVars, argPos, playlistLen, output>>
    /\ IF ~musicRunning
          THEN currentShuffle' = FALSE /\ Finish("err")
          ELSE currentShuffle' = shuffleEnabled /\ pc' = "build" /\ result' = "none"

\* CreateOrUpdateQueueWithSelectedFirst: the build script.
CreateOrUpdateQueueWithSelectedFirst ==
    /\ UNCHANGED <<codecVars, tuiVars, applyVars>>
    /\ pc = "build"
    /\ UNCHANGED <<musicRunning, srcLen, srcBad, playerState, currentPlaylist,
                   currentTrack, argPos, playlistLen, currentShuffle, output>>
    /\ IF ~musicRunning \/ ~ScriptValidPosition(argPos)
       THEN \* error "Music app is not running" or "Invalid selected position",
            \* before the queue is touched
            UNCHANGED <<queueExists, queue, shuffleEnabled>> /\ Finish("err")
       ELSE \/ \* the script runs to its end
               /\ queueExists' = TRUE
               /\ queue' \in BuiltQueues(argPos, currentShuffle)
               /\ shuffleEnabled' = ShuffleAfterBuild(shuffleEnabled)
               /\ pc' = "play" /\ result' = "none"
            \/ \* a statement fails after the queue was cleared: no rollback
               /\ queueExists' = TRUE
               /\ \E full \in BuiltQueues(argPos, currentShuffle) :
                     queue' \in Prefixes(full) \ {full}
               /\ UNCHANGED shuffleEnabled
               /\ Finish("err")

\* PlaySongAtPosition: the play script.
PlaySongAtPositionPlay ==
    /\ UNCHANGED <<codecVars, tuiVars, applyVars>>
    /\ pc = "play"
    /\ UNCHANGED <<musicRunning, srcLen, srcBad, queueExists, queue, argPos,
                   playlistLen, currentShuffle, output>>
    /\ IF musicRunning /\ queueExists /\ queue # <<>>
       THEN /\ shuffleEnabled' = ShuffleAfterPlay(shuffleEnabled)
            /\ playerState' = "playing"
            /\ currentPlaylist' = QueueName
            /\ currentTrack' = queue[1]
            /\ Finish("ok")
       ELSE \* "ERROR: Music app is not running", "ERROR: " & errMsg
            /\ UNCHANGED <<shuffleEnabled, playerState, currentPlaylist, currentTrack>>
            /\ Finish("err")

\* ------------------------------------------------- daemon: CleanupQueue
CleanupQueue ==
    /\ UNCHANGED <<codecVars, tuiVars, applyVars>>
    /\ pc = "idle"
    /\ UNCHANGED <<musicRunning, srcLen, srcBad, queueExists, shuffleEnabled,
                   playerState, currentPlaylist, currentTrack, playlistLen,
                   currentShuffle>>
    /\ argPos' = 0
    /\ pc' = "cleaned"
    /\ output' = CleanupOutput
    /\ result' = CleanupResult(CleanupOutput)
    /\ IF CleanupOutput = "SUCCESS:"
       THEN queue' = TrimFront(queue, CurrentTrackPosition - 1)
       ELSE UNCHANGED queue

\* The goroutine that made the call ends; the next call can start.
Return ==
    /\ UNCHANGED <<codecVars, tuiVars, applyVars>>
    /\ pc \in {"done", "cleaned"}
    /\ pc' = "idle" /\ result' = "none"
    /\ argPos' = 0 /\ playlistLen' = 0 /\ currentShuffle' = FALSE /\ output' = ""
    /\ UNCHANGED remoteVars

\* ------------------------------------------------- the remote player itself
\* The player moves to another track of the current playlist, or stops at
\* the end of it.
RemoteTrackChange ==
    /\ UNCHANGED <<codecVars, tuiVars, applyVars>>
    /\ musicRunning
    /\ playerState = "playing"
    /\ \/ /\ \E i \in 1..Len(TracksOf(currentPlaylist)) :
                currentTrack' = TracksOf(currentPlaylist)[i]
          /\ UNCHANGED playerState
       \/ playerState' = "stopped" /\ currentTrack' = 0
    /\ UNCHANGED <<musicRunning, srcLen, srcBad, queueExists, queue, shuffleEnabled,
                   currentPlaylist, callVars>>

\* The user starts the source playlist in the player.
RemotePlaySource ==
    /\ UNCHANGED <<codecVars, tuiVars, applyVars>>
    /\ musicRunning
    /\ srcLen > 0
    /\ playerState' = "playing"
    /\ currentPlaylist' = SourceName
    /\ currentTrack' \in 1..srcLen
    /\ UNCHANGED <<musicRunning, srcLen, srcBad, queueExists, queue, shuffleEnabled,
                   callVars>>

\* The shuffle setting is changed in the player.
RemoteSetShuffle ==
    /\ UNCHANGED <<codecVars, tuiVars, applyVars>>
    /\ musicRunning
    /\ shuffleEnabled' = ~shuffleEnabled
    /\ UNCHANGED <<musicRunning, srcLen, srcBad, queueExists, queue, playerState, currentPlaylist,
                   currentTrack, callVars>>

\* The player is quit, or started again.
RemoteQuitOrLaunch ==
    /\ UNCHANGED <<codecVars, tuiVars, applyVars>>
    /\ musicRunning' = ~musicRunning
    /\ playerState' = "stopped"
    /\ currentPlaylist' = "none"
    /\ currentTrack' = 0
    /\ UNCHANGED <<srcLen, srcBad, queueExists, queue, shuffleEnabled, callVars>>

\* ------------------------------------------------- specification: the queue
InitQueue ==
    /\ musicRunning = TRUE
    /\ srcLen \in 0..MaxTracks
    /\ srcBad \in 0..srcLen
    /\ queueExists = FALSE
    /\ queue = <<>>
    /\ shuffleEnabled \in BOOLEAN
    /\ playerState = "stopped"
    /\ currentPlaylist = "none"
    /\ currentTrack = 0
    /\ pc = "idle" /\ argPos = 0 /\ playlistLen = 0 /\ currentShuffle = FALSE
    /\ output = "" /\ result = "none"
    /\ CodecIdle
    /\ TuiIdle
    /\ ApplyIdle

NextQueue ==
    \/ \E position \in 0..(MaxTracks + 1) : PlaySongAtPosition(position)
    \/ GetShuffle
    \/ CreateOrUpdateQueueWithSelectedFirst
    \/ PlaySongAtPositionPlay
    \/ CleanupQueue
    \/ Return
    \/ RemoteTrackChange
    \/ RemotePlaySource
    \/ RemoteSetShuffle
    \/ RemoteQuitOrLaunch

SpecQueue == InitQueue /\ [][NextQueue]_vars

\* ------------------------------------------------- specification: the decoder
DaemonIdle ==
    /\ musicRunning = TRUE /\ srcLen = 0 /\ srcBad = 0
    /\ queueExists = FALSE /\ queue = <<>> /\ shuffleEnabled = FALSE
    /\ playerState = "stopped" /\ currentPlaylist = "none" /\ currentTrack = 0
    /\ pc = "idle" /\ argPos = 0 /\ playlistLen = 0 /\ currentShuffle = FALSE
    /\ output = "" /\ result = "none"

InitCodec == DaemonIdle /\ CodecIdle /\ TuiIdle /\ ApplyIdle

NextCodec == GetQueueInfo \/ NextSnapshot

SpecCodec == InitCodec /\ [][NextCodec]_vars

\* ------------------------------------------------- claims on the decoder
CountOf(s, c) == Cardinality({k \in 1..Len(s) : s[k] = c})

HoldsPipe(s) == \E k \in 1..Len(s) : s[k] = "|"

\* No name, artist or album of the snapshot's playlist holds the character "|".
NoPipeInTexts ==
    /\ ~HoldsPipe(snapName)
    /\ \A i \in 1..Len(snapTracks) :
          ~HoldsPipe(snapTracks[i].name \o snapTracks[i].artist \o snapTracks[i].album)

Decoded == queueInfo.state # "none" /\ payload # QueueScriptError

AsTrack(t) == [Name |-> t.name, Artist |-> t.artist, Album |-> t.album,
               Duration |-> DurationText]

\* The tracks of the snapshot's playlist at the positions in kept, in order.
RECURSIVE RecordsKept(_, _)
RecordsKept(i, kept) ==
    IF i > Len(snapTracks) THEN <<>>
    ELSE (IF i \in kept THEN <<AsTrack(snapTracks[i])>> ELSE <<>>)
            \o RecordsKept(i + 1, kept)

FiveFields == { i \in 1..Len(snapTracks) : CountOf(TrackRecord(snapTracks[i], i), "~") = 4 }

FiveNonEmptyFields ==
    { i \in FiveFields : /\ snapTracks[i].name # <<>> /\ snapTracks[i].artist # <<>>
                         /\ snapTracks[i].album # <<>> }

C10_PositionWithinTotal ==
    queueInfo.state = "ok" =>
        /\ 0 <= queueInfo.CurrentPosition
        /\ queueInfo.CurrentPosition <= queueInfo.TotalTracks
        /\ (queueInfo.CurrentTrack # <<>> => queueInfo.CurrentPosition >= 1)

\* ------------------------------------------------- claims on the queue
PlaySucceeded == pc = "done" /\ result = "ok"

\* C1: a successful play-from-position that read the shuffle setting as off
\* leaves the queue equal to tracks pos..n of the source, in source order:
\* n-pos+1 entries, none of them a track before pos.
C1_OrderedQueueIsTail ==
    (PlaySucceeded /\ ~currentShuffle) =>
        /\ argPos >= 1 /\ argPos <= srcLen
        /\ Len(queue) = srcLen - argPos + 1
        /\ \A k \in 1..Len(queue) : queue[k] = SourceTracks[argPos + k - 1]
        /\ \A k \in 1..Len(queue) : \A b \in 1..(argPos - 1) : queue[k] # SourceTracks[b]

C1_Witness ==
    PlaySucceeded /\ ~currentShuffle /\ argPos = 2 /\ srcLen = 3 /\ queue = <<2, 3>>

\* C2: a successful play-from-position that read the shuffle setting as on
\* leaves a queue of n entries, the first being track pos and the others a
\* permutation of all other tracks of the source.
C2_ShuffledQueueIsPermutation ==
    (PlaySucceeded /\ currentShuffle) =>
        /\ argPos >= 1 /\ argPos <= srcLen
        /\ Len(queue) = srcLen
        /\ queue[1] = SourceTracks[argPos]
        /\ \A t \in (1..srcLen) \ {argPos} :
              Cardinality({k \in 2..Len(queue) : queue[k] = SourceTracks[t]}) = 1

C2_Witness ==
    PlaySucceeded /\ currentShuffle /\ argPos = 2 /\ srcLen = 3 /\ queue = <<2, 3, 1>>

\* C3: play-from-position with a position below 1 or beyond the track count
\* (of the remote playlist or of the decoded one) ends at once with an
\* error and changes nothing of the remote player.
C3_InvalidPositionRejected ==
    [][ (/\ pc = "idle" /\ pc' \in {"getShuffle", "done"}
         /\ (argPos' < 1 \/ argPos' > srcLen \/ argPos' > DecodedLen))
        => (/\ pc' = "done" /\ result' = "err"
            /\ queue' = queue /\ queueExists' = queueExists
            /\ shuffleEnabled' = shuffleEnabled
            /\ playerState' = playerState
            /\ currentPlaylist' = currentPlaylist /\ currentTrack' = currentTrack) ]_vars

C3_Witness ==
    /\ pc = "done" /\ result = "err" /\ musicRunning /\ argPos = srcLen + 1
    /\ queue # <<>> /\ playerState = "playing" /\ shuffleEnabled

\* C4: the step that completes a play-from-position successfully leaves the
\* remote shuffle setting off, whatever it was.
C4_ShuffleOffAfterPlay ==
    [][ (pc = "play" /\ pc' = "done" /\ result' = "ok") => shuffleEnabled' = FALSE ]_vars

C4_Witness == PlaySucceeded /\ currentShuffle /\ ~shuffleEnabled

Ret(m, cmd, call) == [m |-> m, cmd |-> cmd, call |-> call]

Call(op, playlist, arg) == [op |-> op, playlist |-> playlist, arg |-> arg]

\* The keys whose text is one character.
SingleCharKeys == {"a", "q", "Q", "K", "/", "h", "l", "u", "s", "k", "j", " "}

\* The keys that are pressed.
Keys == {"esc", "enter", "up", "down", "tab", "ctrl+c", "ctrl+w", "backspace"}
            \cup (SingleCharKeys \ {"k", "j"})

\* The characters that are typed into the search input.
TypedChars == {"a"}

\* strings.TrimSpace, on a text given as a sequence of characters.
RECURSIVE TrimSpace(_)
TrimSpace(s) ==
    IF s = <<>> THEN s
    ELSE IF Head(s) \in {" ", "\n", "\t", "\r"} THEN TrimSpace(Tail(s))
    ELSE IF s[Len(s)] \in {" ", "\n", "\t", "\r"} THEN TrimSpace(SubSeq(s, 1, Len(s) - 1))
    ELSE s

updateFocus(m) ==
    [m EXCEPT !.searchHelp.searching = (m.currentFocus = focusSearch),
              !.playlists.selectedItem = m.selectedPlaylistItem]

\* Mutant: the list is scrolled to the selected entry at every change.
updatePlaylistSelectionFollows(m) ==
    [m EXCEPT !.playlists.selectedItem = m.selectedPlaylistItem,
              !.playlists.scrollOffset = m.selectedPlaylistItem]

updatePlaylistSelection(m) ==
    LET pl == m.playlists
        fit == pl.height - 2
        room == IF Len(pl.playlistItems) > fit THEN fit - 1 ELSE fit
        visibleItems == IF room < 0 THEN 0 ELSE room
        up == IF m.selectedPlaylistItem < pl.scrollOffset
              THEN m.selectedPlaylistItem ELSE pl.scrollOffset
        down == IF m.selectedPlaylistItem >= up + visibleItems
                THEN m.selectedPlaylistItem - visibleItems + 1 ELSE up
    IN  [m EXCEPT !.playlists.selectedItem = m.selectedPlaylistItem,
                  !.playlists.scrollOffset = down]

\* Mutant: the new selection is not held below the number of tracks.
NewSelectionNoUpperBound(moved, count) == IF moved < 0 THEN 0 ELSE moved

\* updateSongSelection: newSelection, held within 0..count-1.
NewSelection(moved, count) ==
    IF moved < 0 THEN 0 ELSE IF moved >= count THEN count - 1 ELSE moved

updateSongSelection(m, direction) ==
    LET main == m.main
        count == IF main.isSearchMode THEN main.searchResults ELSE SongsIn(m.selectedPlaylist)
        moves == IF main.isSearchMode THEN main.searchResults # 0
                 ELSE /\ m.selectedPlaylist # ""
                      /\ m.selectedPlaylist \in m.playlistCache
                      /\ SongsIn(m.selectedPlaylist) # 0
        moved == main.selectedSong + direction
        newSelection == NewSelection(moved, count)
        rows == main.height - 3
        visibleTracks == IF rows < 1 THEN 1 ELSE rows
        scroll == IF newSelection < main.scrollOffset THEN newSelection
                  ELSE IF newSelection >= main.scrollOffset + visibleTracks
                       THEN newSelection - visibleTracks + 1
                       ELSE main.scrollOffset
    IN  IF moves
        THEN [m EXCEPT !.main.selectedSong = newSelection, !.main.scrollOffset = scroll]
        ELSE m

executeContextMenuAction(m) ==
    LET closed == [m EXCEPT !.contextVisible = FALSE, !.contextMenu.visible = FALSE]
        menu == m.contextMenu
    IN  IF menu.selectedOption = contextPlay
        THEN Ret(closed, "nil",
                 Call("PlaySongAtPosition", menu.targetPlaylist, menu.targetSongIndex + 1))
        ELSE IF menu.selectedOption = contextAddToQueue
        THEN Ret(closed, "nil",
                 Call("AddToQueue", menu.targetPlaylist, menu.targetSongIndex + 1))
        ELSE Ret(closed, "nil", NoCall)

\* searchHelpModel.Update, case tea.KeyMsg.
searchHelpUpdate(sh, key) ==
    LET text == sh.searchText
        pos == sh.cursorPos
    IN  IF ~sh.searching THEN sh
        ELSE CASE key = "backspace" ->
                    IF Len(text) > 0 /\ pos > 0
                    THEN [sh EXCEPT !.searchText = SubSeq(text, 1, pos - 1)
                                                      \o SubSeq(text, pos + 1, Len(text)),
                                    !.cursorPos = pos - 1]
                    ELSE sh
               [] key = "delete" ->
                    IF pos < Len(text)
                    THEN [sh EXCEPT !.searchText = SubSeq(text, 1, pos)
                                                      \o SubSeq(text, pos + 2, Len(text))]
                    ELSE sh
               [] key = "left" -> IF pos > 0 THEN [sh EXCEPT !.cursorPos = pos - 1] ELSE sh
               [] key = "right" ->
                    IF pos < Len(text) THEN [sh EXCEPT !.cursorPos = pos + 1] ELSE sh
               [] key \in {"home", "ctrl+a"} -> [sh EXCEPT !.cursorPos = 0]
               [] key \in {"end", "ctrl+e"} -> [sh EXCEPT !.cursorPos = Len(text)]
               [] OTHER ->
                    IF key \in SingleCharKeys /\ Len(text) < SearchTextLimit
                    THEN [sh EXCEPT !.searchText = SubSeq(text, 1, pos) \o <<key>>
                                                      \o SubSeq(text, pos + 1, Len(text)),
                                    !.cursorPos = pos + 1]
                    ELSE sh

\* Mutant: the context menu lets the keys through to the panels.
ContextMenuNeverCaptures(m) == FALSE

\* case tea.KeyMsg, "if m.contextVisible".
ContextMenuCaptures(m) == m.contextVisible

KeyContextMenu(m, key) ==
    CASE key \in {"esc", "q"} ->
            Ret([m EXCEPT !.contextVisible = FALSE, !.contextMenu.visible = FALSE],
                "nil", NoCall)
      [] key \in {"up", "k"} ->
            Ret(IF m.contextMenu.selectedOption > 0
                THEN [m EXCEPT !.contextMenu.selectedOption = @ - 1] ELSE m,
                "nil", NoCall)
      [] key \in {"down", "j"} ->
            Ret(IF m.contextMenu.selectedOption < 2
                THEN [m EXCEPT !.contextMenu.selectedOption = @ + 1] ELSE m,
                "nil", NoCall)
      [] key = "enter" -> executeContextMenuAction(m)
      [] OTHER -> Ret(m, "nil", NoCall)

\* Mutant: the queue overlay lets the keys through to the panels.
QueueOverlayNeverCaptures(m) == FALSE

\* case tea.KeyMsg, "if m.queueVisible".
QueueOverlayCaptures(m) == m.queueVisible

KeyQueueOverlay(m, key) ==
    LET q == m.queueOverlay
        has == q.queueInfo # <<>> /\ q.queueInfo[1].Tracks > 0
        info == q.queueInfo[1]
        minPosition == IF info.CurrentPosition > 0 THEN info.CurrentPosition ELSE 0
        closed == [m EXCEPT !.queueVisible = FALSE, !.queueOverlay.visible = FALSE]
    IN  CASE key \in {"q", "esc"} -> Ret(closed, "nil", NoCall)
          [] key = "u" -> Ret([m EXCEPT !.queueOverlay.loading = TRUE], "fetchQueueInfo", NoCall)
          [] key \in {"up", "k"} ->
                Ret(IF has /\ q.selectedItem > minPosition
                    THEN [m EXCEPT !.queueOverlay.selectedItem = q.selectedItem - 1,
                                   !.queueOverlay.scrollOffset =
                                       IF q.selectedItem - 1 < q.scrollOffset
                                       THEN q.selectedItem - 1 ELSE q.scrollOffset]
                    ELSE m,
                    "nil", NoCall)
          [] key \in {"down", "j"} ->
                Ret(IF has /\ q.selectedItem < info.Tracks - 1
                    THEN [m EXCEPT !.queueOverlay.selectedItem = q.selectedItem + 1,
                                   !.queueOverlay.scrollOffset =
                                       IF q.selectedItem + 1 >= q.scrollOffset + QueueVisibleTracks
                                       THEN q.selectedItem + 1 - QueueVisibleTracks + 1
                                       ELSE q.scrollOffset]
                    ELSE m,
                    "nil", NoCall)
          [] key = "enter" ->
                IF has /\ q.selectedItem >= 0 /\ q.selectedItem < info.Tracks
                THEN Ret(closed, "nil", Call("SkipToQueuePosition", "", q.selectedItem + 1))
                ELSE Ret(m, "nil", NoCall)
          [] OTHER -> Ret(m, "nil", NoCall)

\* Mutant: the key after ctrl+w is dropped and the chord stays pending.
KeyCtrlWStaysPending(m, key) == Ret(m, "nil", NoCall)

\* case tea.KeyMsg, "if m.ctrlWPressed".
KeyCtrlW(m, key) ==
    LET focus == IF key = "h" /\ m.currentFocus = focusMain THEN focusPlaylists
                 ELSE IF key = "l" /\ m.currentFocus = focusPlaylists THEN focusMain
                 ELSE m.currentFocus
    IN  Ret(updateFocus([m EXCEPT !.ctrlWPressed = FALSE, !.currentFocus = focus]),
            "nil", NoCall)

\* Mutant: the search input keeps every key and the focus.
KeySearchKeepsFocus(m, key) == Ret(m, "nil", NoCall)

\* case tea.KeyMsg, "if m.currentFocus == focusSearch".
KeySearch(m, key) ==
    CASE key = "enter" ->
            IF TrimSpace(m.searchHelp.searchText) # <<>>
            THEN Ret(m, "fetchSearchResults", NoCall)
            ELSE Ret(updateFocus([m EXCEPT !.currentFocus = focusPlaylists]), "nil", NoCall)
      [] key = "esc" ->
            Ret(updateFocus([m EXCEPT !.searchHelp.searchText = <<>>,
                                      !.searchHelp.cursorPos = 0,
                                      !.currentFocus = focusPlaylists]),
                "nil", NoCall)
      [] key = " " -> Ret(m, "nil", Call("TogglePlayPause", "", 0))
      [] OTHER -> Ret([m EXCEPT !.searchHelp = searchHelpUpdate(@, key)], "nil", NoCall)

\* Mutant: no index is taken for an index of the list.
PlaylistItemNeverValid(m) == FALSE

\* case "enter" in the playlists panel: the selected index is one of the list.
PlaylistItemValid(m) ==
    /\ m.selectedPlaylistItem >= 0
    /\ m.selectedPlaylistItem < Len(m.playlists.playlistItems)

\* case tea.KeyMsg, the keys of the panels ("switch msg.String()").
KeyGlobal(m, key) ==
    CASE key \in {"ctrl+c", "q"} -> Ret(m, "tea.Quit", NoCall)
      [] key = "/" -> Ret(updateFocus([m EXCEPT !.currentFocus = focusSearch]), "nil", NoCall)
      [] key = "ctrl+w" -> Ret([m EXCEPT !.ctrlWPressed = TRUE], "nil", NoCall)
      [] key = "Q" ->
            IF m.queueVisible
            THEN Ret([m EXCEPT !.queueVisible = FALSE, !.queueOverlay.visible = FALSE],
                     "nil", NoCall)
            ELSE Ret([m EXCEPT !.queueVisible = TRUE, !.queueOverlay.visible = TRUE,
                               !.queueOverlay.loading = TRUE],
                     "fetchQueueInfo", NoCall)
      [] key \in {"shift+k", "K"} ->
            IF /\ m.currentFocus = focusMain
               /\ m.selectedPlaylist # ""
               /\ m.selectedPlaylist \in m.playlistCache
               /\ m.main.selectedSong >= 0
               /\ m.main.selectedSong < SongsIn(m.selectedPlaylist)
            THEN Ret([m EXCEPT !.contextMenu.targetPlaylist = m.selectedPlaylist,
                               !.contextMenu.targetSongIndex = m.main.selectedSong,
                               !.contextMenu.selectedOption = 0,
                               !.contextMenu.visible = TRUE,
                               !.contextVisible = TRUE],
                     "nil", NoCall)
            ELSE Ret(m, "nil", NoCall)
      [] key = " " ->
            IF m.currentFocus # focusSearch
            THEN Ret(m, "nil", Call("TogglePlayPause", "", 0))
            ELSE Ret(m, "nil", NoCall)
      [] key = "s" ->
            IF m.currentFocus # focusSearch
            THEN Ret(m, "nil", Call("ToggleShuffle", "", 0))
            ELSE Ret(m, "nil", NoCall)
      [] key = "enter" ->
            IF m.currentFocus = focusPlaylists
            THEN LET items == m.playlists.playlistItems
                     valid == PlaylistItemValid(m)
                     name == IF valid THEN items[m.selectedPlaylistItem + 1]
                             ELSE m.selectedPlaylist
                 IN  Ret(updateFocus(
                           [m EXCEPT !.selectedPlaylist = name,
                                     !.playlists.activeItem =
                                         IF valid THEN m.selectedPlaylistItem ELSE @,
                                     !.main.currentPlaylist = name,
                                     !.main.selectedSong = 0,
                                     !.main.scrollOffset = 0,
                                     !.main.isSearchMode = FALSE,
                                     !.currentFocus = focusMain]),
                         "nil", NoCall)
            ELSE IF m.currentFocus = focusMain
            THEN IF m.main.isSearchMode
                 THEN IF /\ m.main.searchResults > 0
                         /\ m.main.selectedSong >= 0
                         /\ m.main.selectedSong < m.main.searchResults
                      THEN Ret(m, "nil", Call("PlaySongById", "", m.main.selectedSong + 1))
                      ELSE Ret(m, "nil", NoCall)
                 ELSE IF m.selectedPlaylist # ""
                      THEN Ret(m, "nil", Call("PlaySongAtPosition", m.selectedPlaylist,
                                              m.main.selectedSong + 1))
                      ELSE Ret(m, "nil", NoCall)
            ELSE Ret(m, "nil", NoCall)
      [] key = "tab" ->
            Ret(updateFocus([m EXCEPT !.currentFocus =
                                IF m.currentFocus = focusPlaylists THEN focusMain
                                ELSE focusPlaylists]),
                "nil", NoCall)
      [] key \in {"up", "k"} ->
            IF m.currentFocus = focusPlaylists
            THEN Ret(IF m.selectedPlaylistItem > 0
                     THEN updatePlaylistSelection([m EXCEPT !.selectedPlaylistItem = @ - 1])
                     ELSE m,
                     "nil", NoCall)
            ELSE IF m.currentFocus = focusMain
            THEN Ret(updateSongSelection(m, -1), "nil", NoCall)
            ELSE Ret(m, "nil", NoCall)
      [] key \in {"down", "j"} ->
            IF m.currentFocus = focusPlaylists
            THEN Ret(IF m.selectedPlaylistItem < Len(m.playlists.playlistItems) - 1
                     THEN updatePlaylistSelection([m EXCEPT !.selectedPlaylistItem = @ + 1])
                     ELSE m,
                     "nil", NoCall)
            ELSE IF m.currentFocus = focusMain
            THEN Ret(updateSongSelection(m, 1), "nil", NoCall)
            ELSE Ret(m, "nil", NoCall)
      [] OTHER -> Ret(m, "nil", NoCall)

\* Model.Update, case tea.KeyMsg: the first branch that applies handles the key.
UpdateKeyMsg(m, key) ==
    IF ContextMenuCaptures(m) THEN KeyContextMenu(m, key)
    ELSE IF QueueOverlayCaptures(m) THEN KeyQueueOverlay(m, key)
    ELSE IF m.ctrlWPressed THEN KeyCtrlW(m, key)
    ELSE IF m.currentFocus = focusSearch THEN KeySearch(m, key)
    ELSE KeyGlobal(m, key)

\* Model.Update, case playlistsMsg.
UpdatePlaylistsMsg(m, msg) ==
    [m EXCEPT !.playlists.playlistItems = msg.playlists,
              !.playlists.lastError = msg.err]

\* Model.Update, case allPlaylistsMsg.
UpdateAllPlaylistsMsg(m, msg) ==
    [m EXCEPT !.playlistCache = IF msg.err THEN @ ELSE msg.playlists,
              !.playlistsLoading = FALSE]

\* mainContentModel.View: what the main panel draws and the daemon call View
\* makes before it returns. cache and loading are what the panel's pointers
\* playlistCache and playlistsLoading refer to: the fields of the Model of the
\* last updateFocus.
mainContentView(main, cache, loading) ==
    IF main.height <= 0 THEN [shows |-> "", call |-> NoCall]
    ELSE IF main.isSearchMode THEN [shows |-> "searchResults", call |-> NoCall]
    ELSE IF main.currentPlaylist = "" THEN [shows |-> "asciiArt", call |-> NoCall]
    ELSE IF loading THEN [shows |-> "Loading songs...", call |-> NoCall]
    ELSE IF main.currentPlaylist \in cache THEN [shows |-> "tracks", call |-> NoCall]
    ELSE [shows |-> "fetched", call |-> Call("GetPlaylist", main.currentPlaylist, 0)]

\* Model.Update, case playbackStatusMsg (playbackModel.Update): the status is
\* kept when it could be read.
UpdatePlaybackStatusMsg(m, msg) ==
    [m EXCEPT !.playback.hasStatus = IF msg.err THEN @ ELSE TRUE]

\* Model.Update, case searchResultsMsg.
UpdateSearchResultsMsg(m, msg) ==
    updateFocus([m EXCEPT !.main.searchResults = IF msg.err THEN 0 ELSE msg.tracks,
                          !.main.searchQuery = IF msg.err THEN "Error" ELSE "query",
                          !.main.isSearchMode = TRUE,
                          !.main.selectedSong = 0,
                          !.main.scrollOffset = 0,
                          !.currentFocus = focusMain])

\* Model.Update, case queueInfoMsg.
UpdateQueueInfoMsg(m, msg) ==
    [m EXCEPT !.queueOverlay.queueInfo = msg.info,
              !.queueOverlay.lastError = msg.err,
              !.queueOverlay.loading = FALSE]

\* NewModel, the SizeFunc of the root node and of the sidebar: the heights the
\* layout gives the main panel and the playlists panel.
MainHeight(height) == IF height - 3 - 2 < 10 THEN 10 ELSE height - 3 - 2
PlaylistsHeight(height) == IF MainHeight(height) - 4 < 8 THEN 8 ELSE MainHeight(height) - 4

\* Model.Update, case tea.WindowSizeMsg.
UpdateWindowSizeMsg(m, height) ==
    [m EXCEPT !.lastHeight = height,
              !.main.height = MainHeight(height),
              !.playlists.height = PlaylistsHeight(height)]

\* The answers that reach the event loop: the library is read, a queue
\* snapshot is refused or holds MaxQueueTracks tracks with nothing playing, a
\* search fails or finds MaxSongs tracks; and the heights of the terminal.
PlaylistsMsgs == {[playlists |-> LibraryNames, err |-> FALSE]}
AllPlaylistsMsgs ==
    {[playlists |-> {LibraryNames[i] : i \in 1..Len(LibraryNames)}, err |-> FALSE]}
PlaybackStatusMsgs == {[err |-> failed] : failed \in BOOLEAN}
QueueInfoMsgs ==
    {[info |-> <<>>, err |-> TRUE],
     [info |-> <<[Tracks |-> MaxQueueTracks, CurrentPosition |-> 0]>>, err |-> FALSE]}
SearchResultsMsgs ==
    {[tracks |-> 0, err |-> TRUE], [tracks |-> MaxSongs, err |-> FALSE]}
TermHeights == {12, 30}

\* The keys pressed in a state: in the search input the typed characters are
\* bounded, and so is the length of the text.
KeysAt(m) ==
    IF m.currentFocus = focusSearch /\ ~m.ctrlWPressed /\ ~m.queueVisible /\ ~m.contextVisible
    THEN {"esc", "enter", " ", "backspace", "ctrl+c"}
            \cup (IF Len(m.searchHelp.searchText) < MaxSearchText THEN TypedChars ELSE {})
    ELSE Keys \ {"backspace"}

\* The event loop hands one key to Update and runs the command it returns
\* (the goroutine Update started runs beside the loop).
Deliver(r) ==
    /\ r.cmd \in {"fetchQueueInfo", "fetchSearchResults"}
           => inflight.queueInfo + inflight.search < MaxInflight
    /\ model' = r.m
    /\ inflight' = [inflight EXCEPT
                       !.queueInfo = IF r.cmd = "fetchQueueInfo" THEN @ + 1 ELSE @,
                       !.search = IF r.cmd = "fetchSearchResults" THEN @ + 1 ELSE @]
    /\ quit' = (r.cmd = "tea.Quit")
    /\ UNCHANGED <<daemonVars, codecVars, applyVars>>

KeyMsg(key) ==
    /\ ~quit
    /\ key \in KeysAt(model)
    /\ Deliver(UpdateKeyMsg(model, key))

ContextMenuKey == model.contextVisible /\ \E key \in Keys : KeyMsg(key)
QueueOverlayKey ==
    ~model.contextVisible /\ model.queueVisible /\ \E key \in Keys : KeyMsg(key)
CtrlWKey ==
    /\ ~model.contextVisible /\ ~model.queueVisible /\ model.ctrlWPressed
    /\ \E key \in Keys : KeyMsg(key)
SearchKey ==
    /\ ~model.contextVisible /\ ~model.queueVisible /\ ~model.ctrlWPressed
    /\ model.currentFocus = focusSearch
    /\ \E key \in Keys : KeyMsg(key)
GlobalKey ==
    /\ ~model.contextVisible /\ ~model.queueVisible /\ ~model.ctrlWPressed
    /\ model.currentFocus # focusSearch
    /\ \E key \in Keys : KeyMsg(key)

\* An answer reaches the event loop and Update handles it.
Answer(m, left) ==
    /\ ~quit
    /\ model' = m
    /\ inflight' = left
    /\ UNCHANGED <<quit, daemonVars, codecVars, applyVars>>

PlaylistsMsg ==
    /\ inflight.playlists
    /\ \E msg \in PlaylistsMsgs :
          Answer(UpdatePlaylistsMsg(model, msg), [inflight EXCEPT !.playlists = FALSE])

AllPlaylistsMsg ==
    /\ inflight.allPlaylists
    /\ \E msg \in AllPlaylistsMsgs :
          Answer(UpdateAllPlaylistsMsg(model, msg), [inflight EXCEPT !.allPlaylists = FALSE])

\* fetchPlaylists and fetchAllPlaylists of Model.Init answer with an error.
PlaylistsMsgFails ==
    /\ inflight.playlists
    /\ Answer(UpdatePlaylistsMsg(model, [playlists |-> <<>>, err |-> TRUE]),
              [inflight EXCEPT !.playlists = FALSE])

AllPlaylistsMsgFails ==
    /\ inflight.allPlaylists
    /\ Answer(UpdateAllPlaylistsMsg(model, [playlists |-> {}, err |-> TRUE]),
              [inflight EXCEPT !.allPlaylists = FALSE])

\* Mutant: the layout hands the message to the playback panel as well, which
\* answers with a tick of its own.
BoxerUpdateReachesPanels(msg) == <<"tick">>

\* Model.Update, "m.boxer.Update(msg)": the layout handles the size of the
\* terminal only; it hands no message to a panel and returns no command.
BoxerUpdate(msg) == <<>>

\* Mutant: the tick is returned only when the poll brought a status.
UpdatePlaybackStatusCmdsOnSuccess(msg) == IF msg.err THEN <<>> ELSE <<"tick">>

\* Model.Update, case playbackStatusMsg: the commands returned, those of the
\* layout batched with the tick of playbackModel.Update (returned with and
\* without an error).
UpdatePlaybackStatusCmds(msg) == BoxerUpdate(msg) \o <<"tick">>

\* A poll answers: Update applies the answer and the ticks it returns are
\* scheduled.
PlaybackStatusMsg ==
    /\ inflight.status > 0
    /\ inflight.status + inflight.statusTick <= MaxPolls
    /\ \E msg \in PlaybackStatusMsgs :
          Answer(UpdatePlaybackStatusMsg(model, msg),
                 [inflight EXCEPT !.status = @ - 1,
                                  !.statusTick = @ + Len(UpdatePlaybackStatusCmds(msg))])

\* playbackModel.Update, the function given to tea.Tick: a second after it was
\* scheduled the tick runs fetchPlaybackStatus()() beside the event loop.
StatusTick ==
    /\ ~quit
    /\ inflight.statusTick > 0
    /\ inflight' = [inflight EXCEPT !.statusTick = @ - 1, !.status = @ + 1]
    /\ UNCHANGED <<model, quit, daemonVars, codecVars, applyVars>>

QueueInfoMsg ==
    /\ inflight.queueInfo > 0
    /\ \E msg \in QueueInfoMsgs :
          Answer(UpdateQueueInfoMsg(model, msg), [inflight EXCEPT !.queueInfo = @ - 1])

SearchResultsMsg ==
    /\ inflight.search > 0
    /\ \E msg \in SearchResultsMsgs :
          Answer(UpdateSearchResultsMsg(model, msg), [inflight EXCEPT !.search = @ - 1])

WindowSizeMsg ==
    \E height \in TermHeights : Answer(UpdateWindowSizeMsg(model, height), inflight)

\* ------------------------------------------------- specification: the terminal UI
\* Keys and the answers that touch the panels and the modals. PlaybackStatusMsg
\* (it writes playback.hasStatus only) and WindowSizeMsg (it writes the heights
\* only, and no list of this specification is longer than a panel) are left out.
InitNav == DaemonIdle /\ CodecIdle /\ TuiIdle /\ ApplyIdle

NextNav ==
    \/ ContextMenuKey
    \/ QueueOverlayKey
    \/ CtrlWKey
    \/ SearchKey
    \/ GlobalKey
    \/ PlaylistsMsg
    \/ AllPlaylistsMsg
    \/ QueueInfoMsg
    \/ SearchResultsMsg

SpecNav == InitNav /\ [][NextNav]_vars

\* ------------------------------------------------- claims on the terminal UI
ModalOpen(m) == m.queueVisible \/ m.contextVisible

KeyStep == \E key \in Keys : KeyMsg(key)

\* What C6 names: the focused panel, the selected index and the scroll offset
\* of the playlists panel and of the main panel, the search text and the
\* pending-chord flag.
NavState(m) ==
    <<m.currentFocus, m.selectedPlaylistItem, m.playlists.selectedItem,
      m.playlists.scrollOffset, m.main.selectedSong, m.main.scrollOffset,
      m.searchHelp.searchText, m.ctrlWPressed>>

\* C6: a key pressed while the queue inspector or the context menu is open,
\* the key that opens it and the key that closes it included, leaves the
\* focused panel, both panels' selected index and scroll offset, the search
\* text and the pending-chord flag as they were, and does not quit; so after
\* any sequence of keys and the closing Escape or q they are what they were
\* before the modal was opened.
C6_ModalKeysLeaveNavigation ==
    [][(KeyStep /\ (ModalOpen(model) \/ ModalOpen(model')))
          => (NavState(model') = NavState(model) /\ ~quit')]_vars

C6_Witness ==
    /\ model.queueVisible
    /\ model.queueOverlay.selectedItem = 1
    /\ model.currentFocus = focusMain
    /\ model.main.selectedSong = 1
    /\ model.searchHelp.searchText = <<"a">>

\* C7: while a modal stays open no step, key or answer, changes the focused
\* panel, the main panel's selected index and scroll offset or whether it
\* shows search results.
C7_ModalShieldsPanels ==
    [][(ModalOpen(model) /\ ModalOpen(model'))
          => <<model'.currentFocus, model'.main.selectedSong, model'.main.scrollOffset,
               model'.main.isSearchMode>>
             = <<model.currentFocus, model.main.selectedSong, model.main.scrollOffset,
                 model.main.isSearchMode>>]_vars

\* C8: the queue inspector and the context menu are never visible together.
C8_AtMostOneModal == ~(model.queueVisible /\ model.contextVisible)

C8_Witness ==
    /\ model.contextVisible
    /\ model.contextMenu.selectedOption = 2
    /\ model.queueOverlay.queueInfo # <<>>

\* ------------------------------------------------- daemon: the answers of the scripts
\* Longest tail of an answer after its first word.
MaxReplyTail == 2

\* The first words of the answers the scripts give.
ErrorPrefix == <<"E", "R", "R", "O", "R", ":">>
SuccessPrefix == <<"S", "U", "C", "C", "E", "S", "S", ":">>
InfoPrefix == <<"I", "N", "F", "O", ":">>
NoResults == <<"N", "O", "_", "R", "E", "S", "U", "L", "T", "S">>

\* What a function of the daemon returns: nil, a value, an error made with
\* fmt.Errorf("AppleScript error: %s", ...), another error, or a run-time panic.
Returned(kind, text) == [kind |-> kind, text |-> text]

\* Go's s[n:]: the text from byte n on; a run-time panic when n > len(s).
SliceFrom(s, n) ==
    IF n > Len(s) THEN [ok |-> FALSE, val |-> <<>>]
    ELSE [ok |-> TRUE, val |-> SubSeq(s, n + 1, Len(s))]

\* fmt.Errorf("AppleScript error: %s", output[7:])
AppleScriptError(trimmed) ==
    LET msg == SliceFrom(trimmed, 7)
    IN  IF msg.ok THEN Returned("AppleScript error", msg.val) ELSE Returned("panic", <<>>)

\* TogglePlayPause, from the answer of its script on.
TogglePlayPauseResult(out) ==
    LET trimmed == TrimSpace(out)
    IN  IF HasPrefix(trimmed, ErrorPrefix) THEN AppleScriptError(trimmed)
        ELSE Returned("nil", <<>>)

\* GetPlaybackStatus, from the answer of its script on; the value is the parts.
GetPlaybackStatusResult(out) ==
    LET trimmed == TrimSpace(out)
        parts == Split(trimmed, "|")
    IN  IF HasPrefix(trimmed, ErrorPrefix) THEN AppleScriptError(trimmed)
        ELSE IF Len(parts) < 10 THEN Returned("error", <<>>)
        ELSE Returned("value", parts)

\* SkipToQueuePosition, from the answer of its script on.
SkipToQueuePositionResult(out) ==
    LET trimmed == TrimSpace(out)
    IN  IF HasPrefix(trimmed, ErrorPrefix) THEN AppleScriptError(trimmed)
        ELSE IF ~HasPrefix(trimmed, SuccessPrefix) THEN Returned("error", trimmed)
        ELSE Returned("nil", <<>>)

\* CleanupQueue, from the answer of its script on.
CleanupQueueResult(out) ==
    LET trimmed == TrimSpace(out)
    IN  IF HasPrefix(trimmed, ErrorPrefix) THEN AppleScriptError(trimmed)
        ELSE IF HasPrefix(trimmed, InfoPrefix) \/ HasPrefix(trimmed, SuccessPrefix)
             THEN Returned("nil", <<>>)
        ELSE Returned("error", trimmed)

\* AddToQueue, from the answer of its script on; output[9:] is printed.
AddToQueueResult(out) ==
    LET trimmed == TrimSpace(out)
    IN  IF HasPrefix(trimmed, ErrorPrefix) THEN AppleScriptError(trimmed)
        ELSE IF HasPrefix(trimmed, SuccessPrefix)
             THEN IF SliceFrom(trimmed, 9).ok THEN Returned("nil", <<>>)
                  ELSE Returned("panic", <<>>)
        ELSE Returned("error", trimmed)

\* SearchTracks: the records between "|" that split into 5 parts at "~".
SearchTrackRecords(trackStrings) ==
    LET F[i \in 0..Len(trackStrings)] ==
            IF i = 0 THEN <<>>
            ELSE IF trackStrings[i] # <<>> /\ Len(Split(trackStrings[i], "~")) = 5
                 THEN Append(F[i - 1], Split(trackStrings[i], "~"))
                 ELSE F[i - 1]
    IN  F[Len(trackStrings)]

\* SearchTracks, from the answer of its script on.
SearchTracksResult(out) ==
    LET trimmed == TrimSpace(out)
    IN  IF trimmed = NoResults THEN Returned("value", <<>>)
        ELSE IF HasPrefix(trimmed, ErrorPrefix) THEN AppleScriptError(trimmed)
        ELSE Returned("value", SearchTrackRecords(Split(trimmed, "|")))

\* The answers: a first word (none, a sentinel, ten empty status parts, one track
\* record), a short tail, and the line end osascript writes.
Replies ==
    LET heads == {<<>>, ErrorPrefix, SuccessPrefix, InfoPrefix, NoResults,
                  <<"|", "|", "|", "|", "|", "|", "|", "|", "|">>,
                  <<"1", "~", "n", "~", "a", "~", "b", "~", "3">>}
        tails == UNION {[1..n -> {" ", "x", "|"}] : n \in 0..MaxReplyTail}
    IN  {head \o tail \o <<"\n">> : head \in heads, tail \in tails}

\* One function is applied to the input, once.
Apply(name, r) ==
    /\ fn = "none"
    /\ fn' = name
    /\ fnRet' = r
    /\ UNCHANGED <<fnArg, goroutines, daemonVars, codecVars, tuiVars>>

TogglePlayPauseReply == Apply("TogglePlayPause", TogglePlayPauseResult(fnArg))
GetPlaybackStatusReply == Apply("GetPlaybackStatus", GetPlaybackStatusResult(fnArg))
SkipToQueuePositionReply == Apply("SkipToQueuePosition", SkipToQueuePositionResult(fnArg))
CleanupQueueReply == Apply("CleanupQueue", CleanupQueueResult(fnArg))
AddToQueueReply == Apply("AddToQueue", AddToQueueResult(fnArg))
SearchTracksReply == Apply("SearchTracks", SearchTracksResult(fnArg))

\* ------------------------------------------------- specification: the answers
InitReply ==
    /\ DaemonIdle /\ CodecIdle /\ TuiIdle
    /\ fn = "none" /\ fnArg \in Replies /\ fnRet = <<>> /\ goroutines = NoGoroutines

NextReply ==
    \/ TogglePlayPauseReply
    \/ GetPlaybackStatusReply
    \/ SkipToQueuePositionReply
    \/ CleanupQueueReply
    \/ AddToQueueReply
    \/ SearchTracksReply

SpecReply == InitReply /\ [][NextReply]_vars

\* ------------------------------------------------- claims: the answers
\* The text that follows "ERROR:" in an answer, as it stands and without the
\* blanks around it.
AfterErrorPrefix(out) == SubSeq(out, Len(ErrorPrefix) + 1, Len(out))
ErrorTexts(out) ==
    {AfterErrorPrefix(out), TrimSpace(AfterErrorPrefix(out)), AfterErrorPrefix(TrimSpace(out))}

\* C11: whatever follows "ERROR:" in an answer, nothing included, each function
\* that checks the sentinel returns the service error whose message is the text
\* after the prefix: never a decoded value and never an abnormal failure.
C11_ErrorSentinelIsServiceError ==
    (fn # "none" /\ HasPrefix(fnArg, ErrorPrefix))
        => (fnRet.kind = "AppleScript error" /\ fnRet.text \in ErrorTexts(fnArg))

\* ------------------------------------------------- daemon: the texts put into the scripts
\* Longest tail of a text after its run of letters.
MaxTextTail == 2

\* SearchTracks: the length the escaped query is cut to.
QueryLimit == 100

\* strings.ReplaceAll(s, old, new) for a one-character old: every character
\* that is old is replaced, the halves of the text one after the other.
RECURSIVE ReplaceAll(_, _, _)
ReplaceAll(s, old, new) ==
    IF Len(s) = 0 THEN <<>>
    ELSE IF Len(s) = 1 THEN (IF s[1] = old THEN new ELSE s)
    ELSE LET half == Len(s) \div 2
         IN  ReplaceAll(SubSeq(s, 1, half), old, new)
                 \o ReplaceAll(SubSeq(s, half + 1, Len(s)), old, new)

\* strings.ReplaceAll(text, `"`, `\"`)
EscapeQuotes(text) == ReplaceAll(text, "\"", <<"\\", "\"">>)

\* GetPlaylist: the argument of fmt.Sprintf, put between the quotes of playlist "%s".
GetPlaylistArgs(playlistName) == <<playlistName>>

\* PlaySongInPlaylist: the arguments of fmt.Sprintf.
PlaySongInPlaylistArgs(songName, playlistName) == <<playlistName, songName>>

\* CreateOrUpdateQueueWithSelectedFirst: the texts among the arguments of fmt.Sprintf.
CreateOrUpdateQueueArgs(sourcePlaylist) ==
    LET escapedSourcePlaylist == EscapeQuotes(sourcePlaylist)
    IN  <<escapedSourcePlaylist, escapedSourcePlaylist, escapedSourcePlaylist>>

\* AddToQueue: the arguments of fmt.Sprintf.
AddToQueueArgs(track) ==
    LET trackName == EscapeQuotes(track.Name)
        trackArtist == EscapeQuotes(track.Artist)
    IN  <<trackName, trackArtist, trackArtist, trackName>>

\* SearchTracks: the five replacements, in the order of the code.
EscapeQuery(query) ==
    ReplaceAll(ReplaceAll(ReplaceAll(ReplaceAll(ReplaceAll(query,
        "\\", <<"\\", "\\">>), "\"", <<"\\", "\"">>), "'", <<"\\", "'">>),
        "\n", <<" ">>), "\r", <<" ">>)

\* SearchTracks: escapedQuery[:100] when len(escapedQuery) > 100.
LimitQuery(escapedQuery) ==
    IF Len(escapedQuery) > QueryLimit THEN SubSeq(escapedQuery, 1, QueryLimit)
    ELSE escapedQuery

\* SearchTracks: the argument of fmt.Sprintf; no script is run for an empty query.
SearchTracksArgs(query) ==
    IF TrimSpace(query) = <<>> THEN <<>>
    ELSE <<LimitQuery(EscapeQuery(TrimSpace(query)))>>

\* The texts of the user: a run of letters (none, or about the limit) and a tail.
UserTexts ==
    LET tails == UNION {[1..n -> {"a", "\"", "\\"}] : n \in 0..MaxTextTail}
        runs == {[i \in 1..n |-> "a"] :
                     n \in {0} \cup ((QueryLimit - MaxTextTail)..QueryLimit)}
    IN  {run \o tail : run \in runs, tail \in tails}

GetPlaylistScript == Apply("GetPlaylist", GetPlaylistArgs(fnArg))
PlaySongInPlaylistScript ==
    Apply("PlaySongInPlaylist", PlaySongInPlaylistArgs(fnArg, <<"P", "1">>))
CreateOrUpdateQueueScript ==
    Apply("CreateOrUpdateQueueWithSelectedFirst", CreateOrUpdateQueueArgs(fnArg))
AddToQueueScript == Apply("AddToQueue", AddToQueueArgs([Name |-> fnArg, Artist |-> fnArg]))
SearchTracksScript == Apply("SearchTracks", SearchTracksArgs(fnArg))

\* ------------------------------------------------- specification: the scripts
InitScript ==
    /\ DaemonIdle /\ CodecIdle /\ TuiIdle
    /\ fn = "none" /\ fnArg \in UserTexts /\ fnRet = <<>> /\ goroutines = NoGoroutines

NextScript ==
    \/ GetPlaylistScript
    \/ PlaySongInPlaylistScript
    \/ CreateOrUpdateQueueScript
    \/ AddToQueueScript
    \/ SearchTracksScript

SpecScript == InitScript /\ [][NextScript]_vars

\* ------------------------------------------------- claims: the scripts
\* Every double quote of the text has a backslash before it.
QuotesEscaped(text) ==
    \A i \in 1..Len(text) : text[i] = "\"" => (i > 1 /\ text[i - 1] = "\\")

\* C12: every function that puts a text of the user (a track name, an artist, a
\* playlist name, a search query) into a script escapes every double quote of it.
C12_UserTextsAreEscaped ==
    fn # "none" => \A i \in 1..Len(fnRet) : QuotesEscaped(fnRet[i])

\* The prefixes of the trimmed query that are at most QueryLimit long.
QueryPrefixes(query) ==
    LET q == TrimSpace(query)
    IN  {SubSeq(q, 1, n) : n \in 0..(IF Len(q) < QueryLimit THEN Len(q) ELSE QueryLimit)}

\* C13: SearchTracks cuts the query to at most 100 characters before it escapes
\* it: the text put into the script is the whole escaping of a prefix of the
\* query, never an escape sequence cut in two.
C13_QueryCutBeforeEscaping ==
    (fn = "SearchTracks" /\ fnRet # <<>>)
        => \E prefix \in QueryPrefixes(fnArg) : fnRet[1] = EscapeQuery(prefix)

\* ------------------------------------------------- tui: the names of the playlists panel
\* Largest number of playlist names the player reports.
MaxNames == 4

\* slices.Index: the place of the first v, counted from 0, or -1.
Index(list, v) ==
    IF \E i \in 1..Len(list) : list[i] = v
    THEN (CHOOSE i \in 1..Len(list) : list[i] = v /\ \A j \in 1..(i - 1) : list[j] # v) - 1
    ELSE -1

\* slices.Delete(list, i, j): the list without its elements i..j-1, counted from 0.
Delete(list, i, j) == SubSeq(list, 1, i) \o SubSeq(list, j + 1, Len(list))

\* fetchPlaylists, from the answer of GetAllPlaylistNames on: the first
\* "amtui Queue" is deleted, then the first two names ("Library" and "Music")
\* are dropped from a list of two or more.
fetchPlaylists(names, failed) ==
    IF failed THEN [playlists |-> <<>>, err |-> TRUE]
    ELSE LET playlists ==
                 IF Index(names, QueueName) # -1
                 THEN Delete(names, Index(names, QueueName), Index(names, QueueName) + 1)
                 ELSE names
         IN  [playlists |-> IF Len(playlists) >= 2
                            THEN SubSeq(playlists, 3, Len(playlists))
                            ELSE playlists,
              err |-> FALSE]

\* The lists of names the player reports.
RemoteNameLists ==
    UNION {[1..n -> {"Library", "Music", QueueName, "P1"}] : n \in 0..MaxNames}

\* The program starts: fetchPlaylists runs and Update handles its playlistsMsg.
FetchPlaylists ==
    Apply("fetchPlaylists", UpdatePlaylistsMsg(NewModel, fetchPlaylists(fnArg, FALSE)))
FetchPlaylistsFails ==
    Apply("fetchPlaylists", UpdatePlaylistsMsg(NewModel, fetchPlaylists(fnArg, TRUE)))

\* ------------------------------------------------- specification: the names
InitFetch ==
    /\ DaemonIdle /\ CodecIdle /\ TuiIdle
    /\ fn = "none" /\ fnArg \in RemoteNameLists /\ fnRet = <<>> /\ goroutines = NoGoroutines

NextFetch == FetchPlaylists \/ FetchPlaylistsFails

SpecFetch == InitFetch /\ [][NextFetch]_vars

\* ------------------------------------------------- claims: the names
\* C14: whatever list of names the player returns, the list of the playlists
\* panel never contains "amtui Queue".
C14_PanelNeverListsQueue ==
    fn = "fetchPlaylists"
        => \A i \in 1..Len(fnRet.playlists.playlistItems) :
               fnRet.playlists.playlistItems[i] # QueueName

\* ------------------------------------------------- specification: the lists of the panels
\* The keys that move in the panels, change the panel, choose a playlist and search.
ScrollKeys == {"up", "down", "tab", "enter", "/", "a", "esc"}

PanelKey == model.currentFocus # focusSearch /\ \E key \in ScrollKeys : KeyMsg(key)
SearchInputKey == model.currentFocus = focusSearch /\ \E key \in ScrollKeys : KeyMsg(key)

\* The library was read, an empty one or the long one: Update handled the
\* playlistsMsg and the allPlaylistsMsg of the start.
InitScroll ==
    /\ DaemonIdle /\ CodecIdle /\ ApplyIdle
    /\ \E names \in {<<>>, LongLibraryNames} :
           model = UpdateAllPlaylistsMsg(
                       UpdatePlaylistsMsg(NewModel, [playlists |-> names, err |-> FALSE]),
                       [playlists |-> {names[i] : i \in 1..Len(names)}, err |-> FALSE])
    /\ inflight = [playlists |-> FALSE, allPlaylists |-> FALSE, queueInfo |-> 0, search |-> 0,
                   status |-> 1, statusTick |-> 0]
    /\ quit = FALSE

NextScroll ==
    \/ PanelKey
    \/ SearchInputKey
    \/ SearchResultsMsg
    \/ WindowSizeMsg

SpecScroll == InitScroll /\ [][NextScroll]_vars

\* ------------------------------------------------- claims: the lists of the panels
\* The number of entries of the list a panel shows.
PlaylistCount(m) == Len(m.playlists.playlistItems)
SongCount(m) ==
    IF m.main.isSearchMode THEN m.main.searchResults
    ELSE IF m.selectedPlaylist \in m.playlistCache THEN SongsIn(m.selectedPlaylist)
    ELSE 0

InRange(selected, count) == count > 0 => (0 <= selected /\ selected <= count - 1)

\* The selection after a step by d in a list of count entries.
Stepped(selected, d, count) ==
    IF count > 0 /\ 0 <= selected + d /\ selected + d <= count - 1 THEN selected + d
    ELSE selected

SelectionsInRange ==
    /\ InRange(model.selectedPlaylistItem, PlaylistCount(model))
    /\ InRange(model.main.selectedSong, SongCount(model))

ArrowMovesByOne ==
    \A key \in {"up", "down"} :
        KeyMsg(key) =>
            LET d == IF key = "up" THEN -1 ELSE 1
            IN  /\ model.currentFocus = focusPlaylists =>
                      /\ model'.selectedPlaylistItem =
                             Stepped(model.selectedPlaylistItem, d, PlaylistCount(model))
                      /\ model'.main.selectedSong = model.main.selectedSong
                      /\ PlaylistCount(model) = 0 => model' = model
                /\ model.currentFocus = focusMain =>
                      /\ model'.main.selectedSong =
                             Stepped(model.main.selectedSong, d, SongCount(model))
                      /\ model'.selectedPlaylistItem = model.selectedPlaylistItem
                      /\ SongCount(model) = 0 => model' = model

\* C15: in the playlists, in the tracks of a playlist and in the search results
\* the selected index is within 0..count-1 whenever the list is not empty; an
\* up or down key changes it by exactly one, or not at all at the end of the
\* list, and changes nothing when the list is empty.
C15_SelectionStaysInList == []SelectionsInRange /\ [][ArrowMovesByOne]_vars

\* Both selections stand on the last entry of a long list.
C15_Witness ==
    /\ PlaylistCount(model) = MaxPlaylists /\ model.selectedPlaylistItem = MaxPlaylists - 1
    /\ SongCount(model) = MaxLongSongs /\ model.main.selectedSong = MaxLongSongs - 1

\* ------------------------------------------------- tui: the rows the panels show
\* playlistsModel.View: visibleItems, the rows left for the playlists.
ViewVisibleItems(pl) ==
    LET fit == pl.height - 2
        room == IF Len(pl.playlistItems) > fit THEN fit - 1 ELSE fit
    IN  IF room < 0 THEN 0 ELSE room

\* playlistsModel.View: the entries startIdx..endIdx-1 are drawn.
PlaylistsViewRange(pl) ==
    LET startIdx == pl.scrollOffset
        endIdx == startIdx + ViewVisibleItems(pl)
    IN  [startIdx |-> startIdx,
         endIdx |-> IF endIdx > Len(pl.playlistItems) THEN Len(pl.playlistItems) ELSE endIdx]

\* mainContentModel.View: visibleTracks, the rows left for the tracks.
ViewVisibleTracks(main) == IF main.height - 3 < 1 THEN 1 ELSE main.height - 3

\* mainContentModel.View: the tracks startIdx..endIdx-1 of len(tracks) are drawn.
MainViewRange(main, total) ==
    LET startIdx == main.scrollOffset
        endIdx == startIdx + ViewVisibleTracks(main)
    IN  [startIdx |-> startIdx, endIdx |-> IF endIdx > total THEN total ELSE endIdx]

\* ------------------------------------------------- claims: the rows the panels show
RangeInList(range, total) == range.startIdx >= 0 /\ range.endIdx <= total

ViewRangesInList ==
    /\ RangeInList(PlaylistsViewRange(model.playlists), PlaylistCount(model))
    /\ RangeInList(MainViewRange(model.main, SongCount(model)), SongCount(model))

Inside(selected, scrollOffset, capacity) ==
    scrollOffset <= selected /\ selected < scrollOffset + capacity

InsideLeavesScroll ==
    /\ (/\ model'.selectedPlaylistItem # model.selectedPlaylistItem
        /\ Inside(model'.selectedPlaylistItem, model.playlists.scrollOffset,
                  ViewVisibleItems(model.playlists)))
           => model'.playlists.scrollOffset = model.playlists.scrollOffset
    /\ (/\ model'.main.selectedSong # model.main.selectedSong
        /\ Inside(model'.main.selectedSong, model.main.scrollOffset,
                  ViewVisibleTracks(model.main)))
           => model'.main.scrollOffset = model.main.scrollOffset

\* C16: whatever the number of entries, the height, the selection and the
\* scroll offset are, the range a panel draws starts at 0 or later and ends at
\* the number of entries or before; and a change of the selection that leaves it
\* inside the window scrollOffset..scrollOffset+capacity-1 leaves the scroll
\* offset as it is.
C16_VisibleRangeWithinList == []ViewRangesInList /\ [][InsideLeavesScroll]_vars

\* Both lists are scrolled and the selection stands strictly inside the window.
C16_Witness ==
    /\ model.playlists.scrollOffset > 0
    /\ model.selectedPlaylistItem > model.playlists.scrollOffset
    /\ model.selectedPlaylistItem
           < model.playlists.scrollOffset + ViewVisibleItems(model.playlists) - 1
    /\ model.main.scrollOffset > 0
    /\ model.main.selectedSong > model.main.scrollOffset
    /\ model.main.selectedSong < model.main.scrollOffset + ViewVisibleTracks(model.main) - 1

\* The model after Update has handled the key.
AfterKey(key) == UpdateKeyMsg(model, key).m

\* C17: after every up or down key, whatever the height of the panel is and
\* also when the terminal was resized between two keys, the selection of the
\* focused panel is inside its window: scrollOffset <= selected <
\* scrollOffset + capacity.
C17_SelectionVisibleAfterKey ==
    \A key \in {"up", "down"} :
        (~quit /\ key \in KeysAt(model)) =>
            /\ (model.currentFocus = focusPlaylists /\ PlaylistCount(model) > 0)
                   => Inside(AfterKey(key).selectedPlaylistItem,
                             AfterKey(key).playlists.scrollOffset,
                             ViewVisibleItems(AfterKey(key).playlists))
            /\ (model.currentFocus = focusMain /\ SongCount(model) > 0)
                   => Inside(AfterKey(key).main.selectedSong,
                             AfterKey(key).main.scrollOffset,
                             ViewVisibleTracks(AfterKey(key).main))

\* ------------------------------------------------- claims: Enter, Escape and Tab
\* Update hands the key to the keys of the panels, and the focus is on the playlists.
PlaylistsPanelTakesKeys ==
    /\ ~quit /\ ~ModalOpen(model) /\ ~model.ctrlWPressed
    /\ model.currentFocus = focusPlaylists

SearchTakesKeys ==
    /\ ~quit /\ ~ModalOpen(model) /\ ~model.ctrlWPressed
    /\ model.currentFocus = focusSearch

\* Update hands the key to the keys of the panels, in one of the two list panels.
ListPanelTakesKeys ==
    /\ ~quit /\ ~ModalOpen(model) /\ ~model.ctrlWPressed
    /\ model.currentFocus \in {focusPlaylists, focusMain}

\* C19, as amended: with the focus on the search input, Escape empties the
\* search text and moves the focus to the playlists panel; Enter with an empty
\* query (blanks only) moves the focus to the playlists panel and starts
\* nothing; Enter with a query starts the search and leaves the model, the focus
\* on the search input included, as it is.
C19_SearchLeavesToPlaylists ==
    SearchTakesKeys =>
        /\ UpdateKeyMsg(model, "esc").m.currentFocus = focusPlaylists
        /\ UpdateKeyMsg(model, "esc").m.searchHelp.searchText = <<>>
        /\ UpdateKeyMsg(model, "esc").cmd = "nil"
        /\ IF TrimSpace(model.searchHelp.searchText) = <<>>
           THEN /\ UpdateKeyMsg(model, "enter").m.currentFocus = focusPlaylists
                /\ UpdateKeyMsg(model, "enter").cmd = "nil"
           ELSE /\ UpdateKeyMsg(model, "enter").m = model
                /\ UpdateKeyMsg(model, "enter").cmd = "fetchSearchResults"

\* The search input has the focus and holds a query, after a playlist was opened.
C19_Witness ==
    /\ SearchTakesKeys
    /\ model.searchHelp.searchText # <<>>
    /\ model.selectedPlaylist # ""

\* The model after "/" was pressed in a list panel, and the answer of Update to
\* the key that follows.
SearchEntered == UpdateKeyMsg(model, "/").m
LeftSearchBy(key) == UpdateKeyMsg(SearchEntered, key)

\* C19: Escape and Enter in the search input give the focus back to the list
\* panel that had it when the search was entered; Enter with a query starts a
\* search as well, Enter with an empty query does what Escape does.
C19_FocusReturnsToPreviousPanel ==
    ListPanelTakesKeys =>
        /\ LeftSearchBy("esc").m.currentFocus = model.currentFocus
        /\ LeftSearchBy("enter").m.currentFocus = model.currentFocus
        /\ IF TrimSpace(SearchEntered.searchHelp.searchText) = <<>>
           THEN LeftSearchBy("enter").cmd = "nil"
           ELSE LeftSearchBy("enter").cmd = "fetchSearchResults"

\* The list panel after the focused one, in the order playlists, main, playlists.
NextListPanel(focus) == IF focus = focusPlaylists THEN focusMain ELSE focusPlaylists

\* C20: whenever no modal is open, Tab moves the focus to the next list panel
\* (playlists, main, playlists again), so that Tab pressed again and again
\* visits every list panel.
C20_TabMovesToNextPanel ==
    (~quit /\ ~ModalOpen(model))
        => UpdateKeyMsg(model, "tab").m.currentFocus = NextListPanel(model.currentFocus)

\* ------------------------------------------------- claims: the chord
\* The focus after the second key of the chord.
ChordFocus(focus, key) ==
    IF key = "h" /\ focus = focusMain THEN focusPlaylists
    ELSE IF key = "l" /\ focus = focusPlaylists THEN focusMain
    ELSE focus

\* C21: after ctrl+w the very next key clears the pending chord, a direction
\* or not; h from the main panel and l from the playlists panel move the focus,
\* and the key is not handled as an ordinary key as well: nothing else of the
\* navigation changes, nothing is started and the program does not quit.
C21_ChordEndsWithNextKey ==
    (model.ctrlWPressed /\ ~quit) =>
        \A key \in Keys \cup {"k", "j"} :
            /\ ~UpdateKeyMsg(model, key).m.ctrlWPressed
            /\ UpdateKeyMsg(model, key).m.currentFocus = ChordFocus(model.currentFocus, key)
            /\ UpdateKeyMsg(model, key).m
                   = updateFocus([model EXCEPT !.ctrlWPressed = FALSE,
                                               !.currentFocus = ChordFocus(@, key)])
            /\ UpdateKeyMsg(model, key).cmd = "nil"
            /\ UpdateKeyMsg(model, key).call = NoCall

\* The chord is pending with the focus on the main panel of an opened playlist.
C21_Witness ==
    /\ model.ctrlWPressed /\ ~quit
    /\ model.currentFocus = focusMain
    /\ model.selectedPlaylist # ""

\* ------------------------------------------------- specification: the status poll
\* The poll of the playback status beside the answers of Model.Init, the keys
\* of the panels and the sizes of the terminal.
InitPoll == DaemonIdle /\ CodecIdle /\ TuiIdle /\ ApplyIdle

NextPoll ==
    \/ PlaybackStatusMsg
    \/ StatusTick
    \/ PlaylistsMsg
    \/ PlaylistsMsgFails
    \/ AllPlaylistsMsg
    \/ AllPlaylistsMsgFails
    \/ PanelKey
    \/ SearchInputKey
    \/ SearchResultsMsg
    \/ WindowSizeMsg

SpecPoll == InitPoll /\ [][NextPoll]_vars

\* ------------------------------------------------- claims: the status poll
\* A tick is scheduled in this step.
TickScheduled == inflight'.statusTick > inflight.statusTick

\* Update applies the answer of the running poll in this step.
AnswerApplied ==
    /\ inflight.status = 1
    /\ inflight'.status = 0
    /\ \E msg \in PlaybackStatusMsgs : model' = UpdatePlaybackStatusMsg(model, msg)

\* C22: at any time at most one poll of the playback status is running or
\* scheduled, and the next poll is scheduled only in the step in which the
\* event loop applies the answer of the previous one.
C22_OnePollAtATime ==
    /\ [](inflight.status + inflight.statusTick <= 1)
    /\ [][TickScheduled => AnswerApplied]_vars

\* The second poll is scheduled after the first one answered with an error.
C22_Witness ==
    /\ inflight.statusTick = 1 /\ inflight.status = 0
    /\ ~model.playback.hasStatus

\* ------------------------------------------------- claims: the event loop and the daemon
\* The main panel as the event loop draws it after Update handled the key; the
\* key is one whose branch ends in updateFocus, so the panel's pointers refer
\* to the Model that Update returns.
ViewAfterKey(key) ==
    mainContentView(AfterKey(key).main, AfterKey(key).playlistCache,
                    AfterKey(key).playlistsLoading)

\* C23: the event loop never waits for the daemon: no daemon call is made
\* while a panel is drawn; here, when the main panel is drawn after Enter
\* chose a playlist.
C23_ViewMakesNoDaemonCall ==
    PlaylistsPanelTakesKeys => ViewAfterKey("enter").call = NoCall

\* ------------------------------------------------- claims: the errors of the fetches
\* The answers of the four fetches when they fail.
NamesFailed == [playlists |-> <<>>, err |-> TRUE]
TracksFailed == [playlists |-> {}, err |-> TRUE]
SearchFailed == [tracks |-> 0, err |-> TRUE]
StatusFailed == [err |-> TRUE]

\* C25: when a fetch of the foreground fails (the playlist names, the tracks of
\* the playlists, a search, the poll of the status), Update stores the error
\* in the state of the panel it belongs to: the playlists panel, the main
\* panel, the main panel and the playback panel.
C25_FailedFetchStoredInPanel ==
    /\ inflight.playlists => UpdatePlaylistsMsg(model, NamesFailed).playlists.lastError
    /\ inflight.search > 0 => UpdateSearchResultsMsg(model, SearchFailed).main.searchQuery = "Error"
    /\ inflight.allPlaylists => UpdateAllPlaylistsMsg(model, TracksFailed).main # model.main
    /\ inflight.status > 0 => UpdatePlaybackStatusMsg(model, StatusFailed).playback # model.playback

\* ------------------------------------------------- daemon: the calls of a position request
\* The remote calls a request makes, in their order, and the error it returns
\* ("nil" for none). The request is [position, tracks, running]: the position
\* asked for, the number of tracks of the playlist (of the current queue, for
\* a skip) and whether the player runs. The scripts after the check are taken
\* to succeed.
PositionRequests ==
    [position : -1..(MaxTracks + 1), tracks : 0..MaxTracks, running : BOOLEAN]

\* PlaySongAtPosition: d.GetPlaylist first, then the check of the position,
\* then the queue (GetShuffle and the build script) and the play script.
PlaySongAtPositionCalls(req) ==
    IF ~req.running
    THEN [calls |-> <<"GetPlaylist">>, err |-> "failed to get playlist"]
    ELSE IF ~ValidPosition(req.position, req.tracks)
    THEN [calls |-> <<"GetPlaylist">>, err |-> "invalid position"]
    ELSE [calls |-> <<"GetPlaylist", "GetShuffle", "CreateOrUpdateQueueWithSelectedFirst", "play">>,
          err |-> "nil"]

\* SkipToQueuePosition: the position is put into the script and the script
\* compares it with the track count of the current playlist.
SkipToQueuePositionCalls(req) ==
    [calls |-> <<"SkipToQueuePosition">>,
     err |-> IF ~req.running THEN "Music app is not running"
             ELSE IF req.position > req.tracks THEN "exceeds queue length"
             ELSE IF req.position < 1 THEN "Invalid position"
             ELSE "nil"]

PlaySongAtPositionRequest == Apply("PlaySongAtPosition", PlaySongAtPositionCalls(fnArg))
SkipToQueuePositionRequest == Apply("SkipToQueuePosition", SkipToQueuePositionCalls(fnArg))

\* ------------------------------------------------- specification: the position requests
InitCalls ==
    /\ DaemonIdle /\ CodecIdle /\ TuiIdle
    /\ fn = "none" /\ fnArg \in PositionRequests /\ fnRet = <<>> /\ goroutines = NoGoroutines

NextCalls ==
    \/ PlaySongAtPositionRequest
    \/ SkipToQueuePositionRequest

SpecCalls == InitCalls /\ [][NextCalls]_vars

\* The errors of a position outside the list.
PositionErrors == {"invalid position", "exceeds queue length", "Invalid position"}

\* C24: a position outside the list is rejected before any remote call is
\* made: a request that returns the error of the position has made no call.
C24_RejectedBeforeRemoteCall ==
    (fn # "none" /\ fnRet.err \in PositionErrors) => fnRet.calls = <<>>

\* ------------------------------------------------- daemon: ToggleShuffle
\* Mutant: the value read is written back.
SetShuffleArgSame(read) == read

\* ToggleShuffle: "d.SetShuffle(!currentShuffle)".
SetShuffleArg(read) == ~read

\* ToggleShuffle: "currentShuffle, err := d.GetShuffle()", one script.
ToggleShuffleGet ==
    /\ UNCHANGED <<codecVars, tuiVars, applyVars>>
    /\ pc = "idle"
    /\ UNCHANGED <<remoteVars, argPos, playlistLen, output>>
    /\ IF ~musicRunning
          THEN currentShuffle' = FALSE /\ Finish("err")
          ELSE currentShuffle' = shuffleEnabled /\ pc' = "toggleSet" /\ result' = "none"

\* ToggleShuffle: "return d.SetShuffle(!currentShuffle)", a second script.
ToggleShuffleSet ==
    /\ UNCHANGED <<codecVars, tuiVars, applyVars>>
    /\ pc = "toggleSet"
    /\ UNCHANGED <<musicRunning, srcLen, srcBad, queueExists, queue, playerState,
                   currentPlaylist, currentTrack, argPos, playlistLen, currentShuffle, output>>
    /\ IF ~musicRunning
          THEN UNCHANGED shuffleEnabled /\ Finish("err")
          ELSE shuffleEnabled' = SetShuffleArg(currentShuffle) /\ Finish("ok")

\* ------------------------------------------------- specification: the shuffle flag
\* ToggleShuffle beside the player, where the user and other programs change
\* the flag, play and quit.
NextShuffle ==
    \/ ToggleShuffleGet
    \/ ToggleShuffleSet
    \/ Return
    \/ RemoteSetShuffle
    \/ RemoteTrackChange
    \/ RemotePlaySource
    \/ RemoteQuitOrLaunch

SpecShuffle == InitQueue /\ [][NextShuffle]_vars

\* The second script of ToggleShuffle succeeds in this step.
ShuffleWritten == pc = "toggleSet" /\ pc' = "done" /\ result' = "ok"

\* The flag was changed in the player after ToggleShuffle read it.
StaleRead == pc = "toggleSet" /\ shuffleEnabled # currentShuffle

\* C26: ToggleShuffle reads the flag and writes, in a second remote call, the
\* negation of the value it read: the flag may change between the two calls,
\* and the write then leaves the negation of the stale read, whatever the flag
\* was when it was written.
C26_ToggleWritesNegationOfRead ==
    /\ [][ShuffleWritten => shuffleEnabled' = ~currentShuffle]_vars
    /\ [][(ShuffleWritten /\ StaleRead) => shuffleEnabled' = shuffleEnabled]_vars
    /\ [][(pc = "idle" /\ pc' = "toggleSet") => UNCHANGED shuffleEnabled]_vars

\* The flag was changed between the read and the write, and the write is due.
C26_Witness == StaleRead /\ musicRunning

\* ------------------------------------------------- daemon: the scripts that add a track
\* The library is a list of tracks [name, artist]; the managed queue "amtui
\* Queue" is absent or a list of entries: -1, -2, ... are the entries it has
\* before the request, a positive entry i is a copy of track i of the library.
MaxLibrary == 2
MaxQueueLen == 2
TrackNames == {"A", "B"}
TrackArtists == {"x", "y"}
LibraryTracks == [name : TrackNames, artist : TrackArtists]
Libraries == UNION {[1..n -> LibraryTracks] : n \in 0..MaxLibrary}

\* A request: the track asked for (the artist may be empty), the position (of
\* AddToQueueAtPosition), the library, the queue and whether the player runs.
AddRequests ==
    {req \in [track : [name : {"A"}, artist : TrackArtists \cup {""}],
              position : 0..(MaxQueueLen + 2),
              library : Libraries,
              queueExists : BOOLEAN,
              queue : {[k \in 1..n |-> 0 - k] : n \in 0..MaxQueueLen},
              running : {TRUE}] :
        ~req.queueExists => req.queue = <<>>}
    \cup
    [track : [name : {"A"}, artist : {"x"}], position : {1},
     library : {<<[name |-> "A", artist |-> "x"]>>},
     queueExists : {FALSE}, queue : {<<>>}, running : {FALSE}]

\* Mutant: the artist is not looked at.
ResolveTrackByNameOnly(library, track) ==
    IF \E i \in 1..Len(library) : library[i].name = track.name
    THEN CHOOSE i \in 1..Len(library) :
             /\ library[i].name = track.name
             /\ \A j \in 1..(i - 1) : library[j].name # track.name
    ELSE 0

\* "set foundTracks to (tracks whose name is ...)", the loop over foundTracks
\* that stops at the first one of the artist, "item 1 of foundTracks"
\* otherwise: the index of the target track, 0 for missing value.
ResolveTrack(library, track) ==
    LET foundTracks == SelectSeq([i \in 1..Len(library) |-> i],
                                 LAMBDA i : library[i].name = track.name)
        Loop[k \in 0..Len(foundTracks)] ==
            \* the target after the candidates k+1.. of foundTracks
            IF k = Len(foundTracks) THEN 0
            ELSE IF library[foundTracks[k + 1]].artist = track.artist
                 THEN foundTracks[k + 1]
                 ELSE Loop[k + 1]
        byArtist == IF track.artist # "" THEN Loop[0] ELSE 0
    IN  IF byArtist = 0 /\ Len(foundTracks) > 0 THEN foundTracks[1] ELSE byArtist

\* What a script leaves: the error ("nil" for none), the target track, the
\* managed queue and the entries it put into the player's own Up Next list.
Added(err, target, exists, entries, upNext) ==
    [err |-> err, target |-> target, queueExists |-> exists, queue |-> entries,
     upNext |-> upNext]

\* The answers before the queue is touched: the player does not run, or no
\* track has the name.
Unchanged(req, err) == Added(err, 0, req.queueExists, req.queue, <<>>)

\* "user playlist amtui Queue", made when it is absent.
QueueOf(req) == IF req.queueExists THEN req.queue ELSE <<>>

\* AddToQueue.
AddToQueueOutcome(req) ==
    LET target == ResolveTrack(req.library, req.track)
    IN  IF ~req.running THEN Unchanged(req, "AppleScript execution failed")
        ELSE IF target = 0 THEN Unchanged(req, "not found in your library")
        ELSE Added("nil", target, TRUE, Append(QueueOf(req), target), <<>>)

\* AddToQueueAtPosition: the position is brought into 1..count+1; at the end
\* the track is appended; otherwise the entries are collected, the queue is
\* emptied and built again. The collected entries refer to the entries that
\* were deleted: either the player still copies them, or the first copy of
\* one fails and the script answers with the error, the queue holding what
\* was built until then.
AddToQueueAtPositionOutcomes(req) ==
    LET target == ResolveTrack(req.library, req.track)
        entries == QueueOf(req)
        count == Len(entries)
        insertPosition == IF req.position < 1 THEN 1
                          ELSE IF req.position > count + 1 THEN count + 1
                          ELSE req.position
    IN  IF ~req.running THEN {Unchanged(req, "AppleScript execution failed")}
        ELSE IF target = 0 THEN {Unchanged(req, "not found in your library")}
        ELSE IF count = 0 \/ insertPosition > count
             THEN {Added("nil", target, TRUE, Append(entries, target), <<>>)}
        ELSE {Added("nil", target, TRUE,
                    SubSeq(entries, 1, insertPosition - 1) \o <<target>>
                        \o SubSeq(entries, insertPosition, count), <<>>),
              Added("ERROR", target, TRUE,
                    IF insertPosition = 1 THEN <<target>> ELSE <<>>, <<>>)}

\* PlayNext: "tell targetTrack to play next", the player's own Up Next list.
PlayNextOutcome(req) ==
    LET target == ResolveTrack(req.library, req.track)
    IN  IF ~req.running THEN Unchanged(req, "AppleScript execution failed")
        ELSE IF target = 0 THEN Unchanged(req, "not found in your library")
        ELSE Added("nil", target, req.queueExists, req.queue, <<target>>)

AddToQueueRequest == Apply("AddToQueue", AddToQueueOutcome(fnArg))
AddToQueueAtPositionRequest ==
    \E r \in AddToQueueAtPositionOutcomes(fnArg) : Apply("AddToQueueAtPosition", r)
PlayNextRequest == Apply("PlayNext", PlayNextOutcome(fnArg))

\* ------------------------------------------------- specification: adding a track
InitAdd ==
    /\ DaemonIdle /\ CodecIdle /\ TuiIdle
    /\ fn = "none" /\ fnArg \in AddRequests /\ fnRet = <<>> /\ goroutines = NoGoroutines

NextAdd ==
    \/ AddToQueueRequest
    \/ AddToQueueAtPositionRequest
    \/ PlayNextRequest

SpecAdd == InitAdd /\ [][NextAdd]_vars

\* ------------------------------------------------- claims: adding a track
\* The tracks of the library with the name asked for, and those of them with
\* the artist asked for.
Named == {i \in 1..Len(fnArg.library) : fnArg.library[i].name = fnArg.track.name}
NamedByArtist == {i \in Named : fnArg.library[i].artist = fnArg.track.artist}
First(indices) == CHOOSE i \in indices : \A j \in indices : i <= j

\* C27: the three requests resolve the target alike: the first track of the
\* library with the name and the artist asked for, when an artist is given and
\* there is one; otherwise the first track with the name; and when no track
\* has the name the request fails and leaves the queue as it was.
C27_TargetTrackResolved ==
    (fn # "none" /\ fnArg.running) =>
        /\ (fnArg.track.artist # "" /\ NamedByArtist # {})
               => fnRet.target = First(NamedByArtist)
        /\ ((fnArg.track.artist = "" \/ NamedByArtist = {}) /\ Named # {})
               => fnRet.target = First(Named)
        /\ Named = {} => /\ fnRet.err = "not found in your library"
                         /\ fnRet.queueExists = fnArg.queueExists
                         /\ fnRet.queue = fnArg.queue
                         /\ fnRet.upNext = <<>>

\* A track of another artist has the name and comes first; the second track
\* is the one of the artist asked for, and it was added.
C27_Witness ==
    /\ fn # "none" /\ fnRet.err = "nil"
    /\ Named = {1, 2} /\ NamedByArtist = {2}
    /\ fnRet.target = 2

\* C28: when it succeeds, each of the three requests adds exactly one entry to
\* the managed queue, which exists afterwards, and removes none.
C28_OneEntryAddedNoneRemoved ==
    (fn # "none" /\ fnRet.err = "nil") =>
        /\ fnRet.queueExists
        /\ Len(fnRet.queue) = Len(QueueOf(fnArg)) + 1
        /\ \A k \in 1..Len(QueueOf(fnArg)) :
               \E n \in 1..Len(fnRet.queue) : fnRet.queue[n] = QueueOf(fnArg)[k]

\* ------------------------------------------------- claims: one scroll rule
\* The rule of the claim: the capacity of a list of total items in a panel of
\* the height with the header lines, one line less when a scroll indicator is
\* drawn, and the scroll offset that brings the selected item into it.
ScrollCapacity(total, height, headerLines) ==
    LET room == IF height - headerLines < 0 THEN 0 ELSE height - headerLines
    IN  IF total > room THEN room - 1 ELSE room

ScrollRule(total, height, headerLines, selected, scrollOffset) ==
    LET capacity == ScrollCapacity(total, height, headerLines)
    IN  IF selected < scrollOffset THEN selected
        ELSE IF selected >= scrollOffset + capacity THEN selected - capacity + 1
        ELSE scrollOffset

\* An arrow key moved the selection of the playlists panel: the new scroll
\* offset is the one of the rule, with the 2 header lines of the panel.
PlaylistsFollowRule(key) ==
    (model.currentFocus = focusPlaylists
        /\ AfterKey(key).selectedPlaylistItem # model.selectedPlaylistItem)
    => AfterKey(key).playlists.scrollOffset
           = ScrollRule(PlaylistCount(model), model.playlists.height, 2,
                        AfterKey(key).selectedPlaylistItem, model.playlists.scrollOffset)

\* The same for the main panel, with its 3 header lines.
MainFollowsRule(key) ==
    (model.currentFocus = focusMain
        /\ AfterKey(key).main.selectedSong # model.main.selectedSong)
    => AfterKey(key).main.scrollOffset
           = ScrollRule(SongCount(model), model.main.height, 3,
                        AfterKey(key).main.selectedSong, model.main.scrollOffset)

\* C29: the lists scroll by one and the same rule: after an arrow key moved
\* the selection, the scroll offset of the panel is the one the rule gives for
\* the number of items, the height, the header lines, the selected index and
\* the scroll offset before.
C29_OneScrollRule ==
    ListPanelTakesKeys =>
        \A key \in {"up", "down"} : PlaylistsFollowRule(key) /\ MainFollowsRule(key)

\* ------------------------------------------------- daemon: the shuffle loop, step by step
MaxLoopTracks == 5

\* The build script with shuffle on, for the selected position: the list of
\* the other indices is collected and the loop starts at its last item.
ShuffleStart ==
    /\ fn = "none"
    /\ fn' = "shuffle"
    /\ fnRet' = [items |-> RemainingIndices(fnArg.position),
                 i |-> Len(RemainingIndices(fnArg.position)),
                 steps |-> 0]
    /\ UNCHANGED <<fnArg, goroutines, daemonVars, codecVars, tuiVars>>

\* "repeat with i from remainingCount to 2 by -1": one pass of the loop, with
\* the random number j from 1 to i.
ShuffleStep ==
    /\ fn = "shuffle"
    /\ fnRet.i >= 2
    /\ \E j \in 1..fnRet.i :
          fnRet' = [items |-> Swap(fnRet.items, fnRet.i, j),
                    i |-> fnRet.i - 1,
                    steps |-> fnRet.steps + 1]
    /\ UNCHANGED <<fn, fnArg, goroutines, daemonVars, codecVars, tuiVars>>

\* The loop is left: the tracks are added in the order of the list.
ShuffleEnd ==
    /\ fn = "shuffle"
    /\ fnRet.i < 2
    /\ fn' = "shuffled"
    /\ UNCHANGED <<fnArg, fnRet, goroutines, daemonVars, codecVars, tuiVars>>

\* ------------------------------------------------- specification: the shuffle loop
\* A playlist of 1..MaxLoopTracks tracks and a selected position in it. The
\* script runs its loop on without waiting for anything.
InitLoop ==
    /\ musicRunning = TRUE /\ srcLen \in 1..MaxLoopTracks /\ srcBad = 0
    /\ queueExists = FALSE /\ queue = <<>> /\ shuffleEnabled = TRUE
    /\ playerState = "stopped" /\ currentPlaylist = "none" /\ currentTrack = 0
    /\ pc = "idle" /\ argPos = 0 /\ playlistLen = 0 /\ currentShuffle = FALSE
    /\ output = "" /\ result = "none"
    /\ CodecIdle /\ TuiIdle
    /\ fn = "none" /\ fnArg \in [position : 1..srcLen] /\ fnRet = <<>> /\ goroutines = NoGoroutines

NextLoop == ShuffleStart \/ ShuffleStep \/ ShuffleEnd

SpecLoop == InitLoop /\ [][NextLoop]_vars /\ WF_vars(NextLoop)

\* ------------------------------------------------- claims: the shuffle loop
\* Every ordering of the items of a list.
Orderings(s) ==
    {p \in [1..Len(s) -> {s[k] : k \in 1..Len(s)}] :
        \A a, b \in 1..Len(s) : a # b => p[a] # p[b]}

\* The passes the loop makes for a playlist of n tracks.
LoopSteps(n) == IF n >= 3 THEN n - 2 ELSE 0

\* C30: with shuffle on the remainder of the queue can be any ordering of the
\* other n-1 tracks: the lists the loop can end with (i from the last index
\* down to 2, j from 1 to i, one swap a pass) are all the orderings of the
\* other indices; a run of the loop ends with one of them, and it ends, after
\* exactly n-2 passes when n >= 3.
C30_EveryOrderingAfterNMinus2Steps ==
    /\ [](\A pos \in 1..srcLen :
            FisherYates(RemainingIndices(pos), srcLen - 1) = Orderings(RemainingIndices(pos)))
    /\ [](fn = "shuffle" =>
            /\ fnRet.steps <= LoopSteps(srcLen)
            /\ fnRet.i < 2 => fnRet.steps = LoopSteps(srcLen))
    /\ [](fn = "shuffled" =>
            /\ fnRet.steps = LoopSteps(srcLen)
            /\ fnRet.items \in FisherYates(RemainingIndices(fnArg.position), srcLen - 1))
    /\ <>(fn = "shuffled")

\* The loop ended for 4 tracks and position 2, after 2 passes, with the other
\* tracks in the order 4, 3, 1.
C30_Witness ==
    /\ fn = "shuffled" /\ srcLen = 4 /\ fnArg.position = 2
    /\ fnRet.steps = 2
    /\ fnRet.items = <<4, 3, 1>>

\* ------------------------------------------------- claims: adding at a position
\* The position of the claim for a queue of n entries: min(max(p, 1), n + 1).
ClampedPosition(position, n) ==
    IF position < 1 THEN 1 ELSE IF position > n + 1 THEN n + 1 ELSE position

\* The list without its item at the place.
Without(list, place) == SubSeq(list, 1, place - 1) \o SubSeq(list, place + 1, Len(list))

\* C31: AddToQueueAtPosition(track, p) on a queue of n entries, for a track
\* of the library, leaves a queue of n+1 entries with the track at position
\* min(max(p, 1), n+1) and the n entries of before in their order, for every p.
C31_InsertedAtClampedPosition ==
    (fn = "AddToQueueAtPosition" /\ fnArg.running /\ Named # {}) =>
        /\ Len(fnRet.queue) = Len(QueueOf(fnArg)) + 1
        /\ fnRet.queue[ClampedPosition(fnArg.position, Len(QueueOf(fnArg)))] = fnRet.target
        /\ Without(fnRet.queue, ClampedPosition(fnArg.position, Len(QueueOf(fnArg))))
               = QueueOf(fnArg)

\* ------------------------------------------------- claims: the track that is played
\* C32: the track placed first in the rebuilt queue is the track of the
\* selected row of the main panel: row argPos of the decoded playlist (the
\* position sent is the selected index + 1), also when the decoder skipped a
\* record of the playlist.
C32_FirstInQueueIsSelectedRow ==
    (pc = "play" \/ PlaySucceeded) => queue[1] = DecodedTracks[argPos]

\* ------------------------------------------------- claims: the target of the context menu
\* The song drawn at the selected row of the main panel, by the list it is
\* taken from and its index: the search results in search mode, the current
\* playlist otherwise.
DisplayedSong(m) ==
    [list |-> IF m.main.isSearchMode THEN "searchResults" ELSE m.main.currentPlaylist,
     index |-> m.main.selectedSong]

\* The song the context menu acts on: playlistCache[targetPlaylist].Tracks[targetSongIndex].
TargetSong(m) ==
    [list |-> m.contextMenu.targetPlaylist, index |-> m.contextMenu.targetSongIndex]

\* C33: whenever K opens the context menu, the target song of the menu is the
\* song drawn at the selected row of the main panel, in playlist mode and in
\* search mode.
C33_MenuTargetIsDisplayedSong ==
    (~quit /\ ~model.contextVisible /\ AfterKey("K").contextVisible) =>
        TargetSong(AfterKey("K")) = DisplayedSong(AfterKey("K"))

\* ------------------------------------------------- specification: the queue inspector
MaxInspectorTracks == 4

\* The snapshots fetchQueueInfo can answer with: refused, or a queue of up to
\* MaxInspectorTracks tracks with nothing playing (CurrentPosition 0) or one
\* of its tracks playing.
QueueSnapshots ==
    {[info |-> <<>>, err |-> TRUE]}
    \cup UNION {{[info |-> <<[Tracks |-> n, CurrentPosition |-> c]>>, err |-> FALSE] :
                    c \in 0..n} : n \in 0..MaxInspectorTracks}

\* Model.Update, case queueInfoMsg, for these snapshots.
QueueSnapshotMsg ==
    /\ inflight.queueInfo > 0
    /\ \E msg \in QueueSnapshots :
          Answer(UpdateQueueInfoMsg(model, msg), [inflight EXCEPT !.queueInfo = @ - 1])

\* Q opens the inspector.
InspectorOpenKey ==
    /\ ~model.contextVisible /\ ~model.queueVisible /\ ~model.ctrlWPressed
    /\ model.currentFocus # focusSearch
    /\ KeyMsg("Q")

NextInspector ==
    \/ InspectorOpenKey
    \/ QueueOverlayKey
    \/ QueueSnapshotMsg

SpecInspector == InitNav /\ [][NextInspector]_vars

\* ------------------------------------------------- claims: the queue inspector
\* The inspector is open on a snapshot that has tracks.
InspectorShows ==
    /\ ~quit /\ model.queueVisible
    /\ model.queueOverlay.queueInfo # <<>>
    /\ model.queueOverlay.queueInfo[1].Tracks > 0

\* C34: whenever the inspector shows a snapshot with CurrentPosition > 0, its
\* selected item is one of the upcoming tracks it draws (0-based index >=
\* CurrentPosition), so Enter never skips to the playing track or before it.
C34_SelectedIsUpcomingTrack ==
    (InspectorShows /\ model.queueOverlay.queueInfo[1].CurrentPosition > 0) =>
        /\ model.queueOverlay.selectedItem >= model.queueOverlay.queueInfo[1].CurrentPosition
        /\ UpdateKeyMsg(model, "enter").call.op = "SkipToQueuePosition"
               => UpdateKeyMsg(model, "enter").call.arg
                      > model.queueOverlay.queueInfo[1].CurrentPosition

\* C35: whenever the inspector holds a snapshot with at least one track, its
\* selected index is an index of the track list of the snapshot, also after a
\* refresh brought a snapshot with fewer tracks.
C35_SelectedIsIndexOfSnapshot ==
    InspectorShows =>
        /\ 0 <= model.queueOverlay.selectedItem
        /\ model.queueOverlay.selectedItem < model.queueOverlay.queueInfo[1].Tracks

\* ------------------------------------------------- claims: the options of the context menu
\* The options contextMenuModel.getContentLine draws, which are the cases of
\* executeContextMenuAction.
MenuOptions == {contextPlay, contextAddToQueue}

\* C36: while the context menu is open, after any up and down keys, its
\* selected option is one of the options it draws (Play, Add To Queue), and
\* Enter runs one of these two actions.
C36_SelectedOptionIsDrawnOption ==
    (~quit /\ model.contextVisible) =>
        /\ model.contextMenu.selectedOption \in MenuOptions
        /\ UpdateKeyMsg(model, "enter").call.op \in {"PlaySongAtPosition", "AddToQueue"}

\* ------------------------------------------------- tui: the goroutines of the keys
MaxGoKeys == 2

\* The calls a key starts in a goroutine of its own: Enter on a row of the
\* open playlist (PlaySongAtPosition of the row) and s (ToggleShuffle).
GoCalls ==
    {[op |-> "PlaySongAtPosition", position |-> p] : p \in 1..DecodedLen}
    \cup {[op |-> "ToggleShuffle", position |-> 0]}

\* The call on the processor, as a goroutine that is set aside keeps it.
Context(op) ==
    [op |-> op, pc |-> pc, argPos |-> argPos, playlistLen |-> playlistLen,
     currentShuffle |-> currentShuffle, output |-> output, result |-> result]

\* "go func() { d.ToggleShuffle() }()", "go func() { d.PlaySongAtPosition(...) }()":
\* Update returns at once, the goroutine is there and has not run yet.
GoKey ==
    /\ Len(goroutines.keys) < MaxGoKeys
    /\ \E call \in GoCalls :
          goroutines' =
              [goroutines EXCEPT
                 !.keys = Append(@, call),
                 !.parked = Append(@, [op |-> call.op, pc |-> "idle",
                                       argPos |-> call.position, playlistLen |-> 0,
                                       currentShuffle |-> FALSE, output |-> "",
                                       result |-> "none"])]
    /\ UNCHANGED <<fn, fnArg, fnRet, daemonVars, codecVars, tuiVars>>

\* The scheduler: between two scripts any goroutine can be the next to run.
\* Nothing orders the goroutines: no channel, no lock, no queue of calls.
GoSwitch ==
    /\ pc # "done"
    /\ \E i \in 1..Len(goroutines.parked) :
          LET next == goroutines.parked[i]
          IN  /\ pc' = next.pc /\ argPos' = next.argPos
              /\ playlistLen' = next.playlistLen
              /\ currentShuffle' = next.currentShuffle
              /\ output' = next.output /\ result' = next.result
              /\ goroutines' =
                    [goroutines EXCEPT
                       !.running = next.op,
                       !.parked = IF goroutines.running = "none"
                                  THEN Without(@, i)
                                  ELSE [@ EXCEPT ![i] = Context(goroutines.running)]]
    /\ UNCHANGED <<fn, fnArg, fnRet, remoteVars, codecVars, tuiVars>>

\* The goroutine of Enter runs its call from the start.
GoPlaySongAtPosition ==
    /\ goroutines.running = "PlaySongAtPosition"
    /\ PlaySongAtPosition(argPos)

\* The goroutine of s runs its call from the start.
GoToggleShuffle ==
    /\ goroutines.running = "ToggleShuffle"
    /\ ToggleShuffleGet

\* The call returned: the goroutine prints the error, if any, and ends.
GoReturn ==
    /\ pc = "done"
    /\ goroutines' = [goroutines EXCEPT !.running = "none",
                                        !.results = Append(@, result)]
    /\ pc' = "idle" /\ result' = "none"
    /\ argPos' = 0 /\ playlistLen' = 0 /\ currentShuffle' = FALSE /\ output' = ""
    /\ UNCHANGED <<fn, fnArg, fnRet, remoteVars, codecVars, tuiVars>>

\* ------------------------------------------------- specification: the goroutines
\* A source playlist whose records all decode, the player running and left
\* alone by everything but the calls of the keys; fnArg keeps the shuffle
\* setting of the start.
InitGo ==
    /\ musicRunning = TRUE
    /\ srcLen \in 1..MaxTracks
    /\ srcBad = 0
    /\ queueExists = FALSE /\ queue = <<>>
    /\ shuffleEnabled \in BOOLEAN
    /\ playerState = "stopped" /\ currentPlaylist = "none" /\ currentTrack = 0
    /\ pc = "idle" /\ argPos = 0 /\ playlistLen = 0 /\ currentShuffle = FALSE
    /\ output = "" /\ result = "none"
    /\ CodecIdle /\ TuiIdle
    /\ fn = "none" /\ fnArg = [shuffleEnabled |-> shuffleEnabled] /\ fnRet = <<>>
    /\ goroutines = NoGoroutines

NextGo ==
    \/ GoKey
    \/ GoSwitch
    \/ GoPlaySongAtPosition
    \/ GoToggleShuffle
    \/ GetShuffle
    \/ CreateOrUpdateQueueWithSelectedFirst
    \/ PlaySongAtPositionPlay
    \/ ToggleShuffleSet
    \/ GoReturn

SpecGo == InitGo /\ [][NextGo]_vars

\* ------------------------------------------------- claims: the order of the mutations
\* The queue and the shuffle setting after one call, run alone on the state
\* (queue, shuffle) of the player.
AfterCall(call, before) ==
    IF call.op = "ToggleShuffle"
    THEN {[queue |-> before.queue, shuffle |-> ~before.shuffle]}
    ELSE {[queue |-> q, shuffle |-> FALSE] :
            q \in BuiltQueues(call.position, before.shuffle)}

\* The states after the first n keys, run one after the other in key order.
RECURSIVE Sequential(_)
Sequential(n) ==
    IF n = 0 THEN {[queue |-> <<>>, shuffle |-> fnArg.shuffleEnabled]}
    ELSE UNION {AfterCall(goroutines.keys[n], before) : before \in Sequential(n - 1)}

\* Every goroutine of the keys has ended, and every call returned nil.
AllComplete ==
    /\ Len(goroutines.keys) = MaxGoKeys
    /\ Len(goroutines.results) = MaxGoKeys
    /\ \A i \in 1..MaxGoKeys : goroutines.results[i] = "ok"

\* C37: the mutations of successive keys (play from a position twice, or
\* toggle shuffle and then play from a position) take effect in key order:
\* once all have completed, the queue and the shuffle setting are those of
\* the calls run one after the other in the order of the keys.
C37_MutationsInKeyOrder ==
    (AllComplete /\ goroutines.keys[MaxGoKeys].op = "PlaySongAtPosition") =>
        [queue |-> queue, shuffle |-> shuffleEnabled] \in Sequential(MaxGoKeys)

\* ------------------------------------------------- daemon: GetAllPlaylists
\* GetAllPlaylists, from the answer of GetAllPlaylistNames on. "names[2:]" of
\* a list of fewer than two names is a run-time panic (slice bounds out of
\* range); else GetPlaylist is called for every other name and the playlists
\* whose call failed are left out: kept is the set of the places of names
\* whose GetPlaylist succeeded.
GetAllPlaylists(names, failed, kept) ==
    IF failed THEN [playlists |-> <<>>, err |-> TRUE, panic |-> FALSE]
    ELSE IF Len(names) < 2 THEN [playlists |-> <<>>, err |-> FALSE, panic |-> TRUE]
    ELSE LET F[i \in 2..Len(names)] ==
                 IF i = 2 THEN <<>>
                 ELSE IF i \in kept THEN Append(F[i - 1], names[i]) ELSE F[i - 1]
         IN  [playlists |-> F[Len(names)], err |-> FALSE, panic |-> FALSE]

\* fetchAllPlaylists: the message of the command; the playlists become a map
\* by name. A panic of the call is not recovered: no message is made.
fetchAllPlaylists(got) ==
    IF got.panic THEN [playlists |-> {}, err |-> FALSE, panic |-> TRUE]
    ELSE IF got.err THEN [playlists |-> {}, err |-> TRUE, panic |-> FALSE]
    ELSE [playlists |-> {got.playlists[i] : i \in 1..Len(got.playlists)},
          err |-> FALSE, panic |-> FALSE]

\* The command runs on the names the player reports.
FetchAllPlaylists ==
    \E kept \in SUBSET (1..Len(fnArg)) :
        Apply("fetchAllPlaylists", fetchAllPlaylists(GetAllPlaylists(fnArg, FALSE, kept)))

\* The command runs and the script of the names fails.
FetchAllPlaylistsFails ==
    Apply("fetchAllPlaylists", fetchAllPlaylists(GetAllPlaylists(fnArg, TRUE, {})))

\* ------------------------------------------------- specification: all playlists
NextAllPlaylists == FetchAllPlaylists \/ FetchAllPlaylistsFails

SpecAllPlaylists == InitFetch /\ [][NextAllPlaylists]_vars

\* ------------------------------------------------- claims: all playlists
\* C39: for every list of names the player returns, the empty list and a list
\* of fewer than two names included, the fetch of all playlists ends with a
\* result or with an error value, never with a panic.
C39_FetchEndsWithResultOrError ==
    fn = "fetchAllPlaylists" => ~fnRet.panic

\* ------------------------------------------------- specification: the status poll, running on
\* The keys that end the program outside the search field and the modals.
QuitKey == ~quit /\ \E key \in {"q", "ctrl+c"} : KeyMsg(key)

NextPollFair == NextPoll \/ QuitKey

\* The timer of tea.Tick fires a second after it was set, whatever else the
\* program does: a scheduled tick is not left waiting for ever. Nothing is
\* assumed of the player: a poll may never answer.
SpecPollFair == InitPoll /\ [][NextPollFair]_vars /\ WF_vars(StatusTick)

\* ------------------------------------------------- claims: the status poll goes on
\* C38: the polling of the playback status never stops while the program
\* runs: after every poll that completed, with a status or with an error, a
\* next poll is issued in the end.
C38_NextPollIssued ==
    (~quit /\ inflight.status = 0) ~> (quit \/ inflight.status > 0)

\* The first poll brought a status and the next poll is running.
C38_Witness ==
    /\ ~quit
    /\ inflight.status = 1 /\ inflight.statusTick = 0
    /\ model.playback.hasStatus

\* ------------------------------------------------- claims: ctrl+c
\* C40: in every state the program reaches (any panel focused, the search
\* field included, a modal open, a chord pending), ctrl+c quits: Update
\* returns tea.Quit for it.
C40_CtrlCQuits ==
    ~quit => UpdateKeyMsg(model, "ctrl+c").cmd = "tea.Quit"

====
